---- MODULE Spec2Model ----
(***************************************************************************)
(* A model of the agent orchestration core of supercode:                   *)
(*   - the Orchestrator's serial task queue   (supervisorAgent.ts)         *)
(*   - the correlated request/response call   (baseAgent.ts, eventBus.ts)  *)
(*   - the workflow step loop                 (workflowPlannerAgent.ts)    *)
(*   - the agent lifecycle and error recovery (baseAgent.ts,               *)
(*                                             supervisorAgent.ts)         *)
(*   - the start()/stop() calls of an agent   (baseAgent.ts)               *)
(*   - the registration table and the sweeps  (supervisorAgent.ts)         *)
(*   - the routing of a task                  (supervisorAgent.ts)         *)
(*   - the dependency scheduler               (todoManagerAgent.ts)        *)
(* Each part has its own specification over its own variables; the         *)
(* variables of the other parts stay at their initial values.              *)
(***************************************************************************)
EXTENDS Integers, Sequences, FiniteSets, Bags, TLC

VARIABLES
    \* ---- Orchestrator task queue (SupervisorAgent) ----
    taskQueue,      \* Seq of queued task numbers           (supervisorAgent.ts:19)
    isProcessing,   \* the processing flag                  (supervisorAgent.ts:20)
    timers,         \* number of interval timers started    (supervisorAgent.ts:231)
    inProcess,      \* tasks dequeued whose processTask has not settled yet
    future,         \* task number -> state of the promise queueTask returned
    queued,         \* number of queueTask calls made so far
    \* ---- correlated requests (BaseAgent.sendRequest, EventBus) ----
    reqs,           \* Seq of the sendRequest calls made: [site, from, to, content]
    outcome,        \* Seq: how each call's promise stands
    value,          \* Seq: the payload each call resolved with, or None
    timerArmed,     \* calls whose 30 s timer is still armed
    listeners,      \* calls whose handler is registered on message:<from>
    serving,        \* requests whose recipient is awaiting processTask
    deliveredTo,    \* Seq: the agent whose handleMessage received the request
    sent,           \* Bag of the other envelopes sent (replies, events):
                    \*   [type, from, to, requestId]; requestId is the id of the
                    \*   envelope answered (content.requestId), or NoValue
    \* ---- workflow executions (WorkflowPlannerAgent) ----
    execs,          \* Seq of execution records        (workflowPlannerAgent.ts:14)
    awaiting,       \* Seq (per execution): step id -> number of runWorkflow calls
                    \*   of that execution awaiting executeStep of that step
    loops,          \* Seq (per execution): Bag of the executeLoopStep calls that
                    \*   await an iteration, or have returned or thrown to a
                    \*   runWorkflow that has not resumed: [step, iter, results,
                    \*   settled]; settled is None while an iteration is awaited
    runningExecutions, \* the set runningExecutions    (workflowPlannerAgent.ts:15)
    visits,         \* Seq (per execution): step id -> number of times the step began
    nested,         \* Seq (per execution): step id -> number of times a Loop step
                    \*   began the step as its nested step
    resumes,        \* Seq (per execution): number of resumeExecution calls that resumed
    resumedAt,      \* Seq (per execution): << currentStep at the last resume,
                    \*   step the resumed run began with >>, or << >>
    workflows,      \* workflow id -> [registered, attached, enabled]
                    \*                                  (workflowPlannerAgent.ts:13)
    lastExecute,    \* the last executeWorkflow call: [workflowId, outcome, execution]
    startedEvents,  \* number of workflow:started events emitted
    contextOf,      \* Seq (per execution): the context object of the execution,
                    \*   named by the execution it was first given to
    slots,          \* number of executions the behaviour creates at most
    shutdownAt,     \* the execution whose cancelExecution the loop of shutdown
                    \*   awaits, 0 when no shutdown is under way
    \* ---- agent lifecycle and recovery (BaseAgent, SupervisorAgent) ----
    agStatus,       \* agent -> its status field                 (baseAgent.ts:13)
    registry,       \* agent -> "unregistered", "attached" or "detached"
                    \*                                  (subAgents, supervisorAgent.ts:18)
    errHandlers,    \* number of agent:error handlers the Supervisor subscribed
    extStarting,    \* agent -> number of outside start() calls awaiting initialize
    extStarts,      \* agent -> number of outside start() calls made
    extStopping,    \* agent -> number of outside stop() calls awaiting shutdown
    extStops,       \* agent -> number of outside stop() calls made
    recovering,     \* agent -> (phase, origin, record held) -> number of
                    \*   handleAgentError calls there
    restarts,       \* agent -> origin -> number of start() calls made by recoveries
    \* ---- the lifecycle calls of an agent (BaseAgent.start, BaseAgent.stop) ----
    status,         \* agent -> its status field                 (baseAgent.ts:13)
    calls,          \* Seq of the start()/stop() calls made, in call order:
                    \*   [op, agent, state, hook]; state is "noop" (returned at the
                    \*   early return), "awaiting" (its hook), "returned" or "threw";
                    \*   hook is how its hook settled, or None
    emitted,        \* Seq of the events emitEvent handed to the listeners, in
                    \*   order (not the capped history array)  (eventBus.ts:32)
    \* ---- the registration table and the sweeps (SupervisorAgent) ----
    subAgents,      \* Seq of registration records in insertion order:
                    \*   [agent, attached, priority]      (supervisorAgent.ts:18)
    agentStatus,    \* agent -> its status field                 (baseAgent.ts:13)
    supervisorUp,   \* the Supervisor's initialize ran (agent:error is handled)
    startSweep,     \* the startAllAgents call: [state, agents, pos, results]
    stopSweep,      \* the shutdown call:       [state, agents, pos, results]
    recovery,       \* Bag of the handleAgentError calls under way:
                    \*   [agent, phase, info]
    direct,         \* the start() or stop() called on a sub-agent from outside
                    \*   the Supervisor that awaits its hook: [agent, op]
    errorEvents,    \* agent -> number of agent:error events emitted for it
    outsideCalls,   \* number of calls made on the Supervisor and its sub-agents
                    \*   from outside (registerAgent, startAllAgents, ...)
    \* ---- routing (SupervisorAgent.processTask) ----
    routed,         \* the last processTask call: [agentId, type, outcome, target]
    \* ---- planner tasks (TodoManagerAgent.autoScheduleTasks) ----
    tasks,          \* this.tasks: the planner tasks in the insertion order of the Map
    scheduled,      \* the last autoScheduleTasks call: [called, order]
    plannerWrites   \* number of calls made so far that write this.tasks

None == "none"

\* The variables of each part, and of all the other parts.
qvars == << taskQueue, isProcessing, timers, inProcess, future, queued >>
rvars == << reqs, outcome, value, timerArmed, listeners, serving, deliveredTo, sent >>
wvars == << execs, awaiting, loops, runningExecutions, visits, nested, resumes, resumedAt,
            workflows, lastExecute, startedEvents, contextOf, slots, shutdownAt >>
avars == << agStatus, registry, errHandlers, extStarting, extStarts, extStopping,
           extStops, recovering, restarts >>
lvars == << status, calls, emitted >>
svars == << subAgents, agentStatus, supervisorUp, startSweep, stopSweep,
            recovery, direct, errorEvents, outsideCalls >>
pvars == << tasks, scheduled, plannerWrites >>
notQueue == << rvars, wvars, avars, lvars, svars, routed, pvars >>
notReq == << qvars, wvars, avars, lvars, svars, routed, pvars >>
notWorkflow == << qvars, rvars, avars, lvars, svars, routed, pvars >>
notAgents == << qvars, rvars, wvars, lvars, svars, routed, pvars >>
notLifecycle == << qvars, rvars, wvars, avars, svars, routed, pvars >>
notSweeps == << qvars, rvars, wvars, avars, lvars, routed, pvars >>
notRouting == << qvars, rvars, wvars, avars, lvars, svars, pvars >>
notPlanner == << qvars, rvars, wvars, avars, lvars, svars, routed >>

\* ------------------------------------------------------------------------
\* Bounds of the model
\* ------------------------------------------------------------------------
MaxTasks == 4
MaxInits == 2
MaxReqs == 2
MaxExtStarts == 2
MaxExtStops == 1
MaxRestarts == 2
MaxResumes == 1
MaxStartCalls == 2
MaxStopCalls == 2
MaxBroadcasts == 1
MaxFailures == 2
MaxOutsideCalls == 5
MaxPlannerWrites == 3
MaxRows == 1

Range(s) == { s[i] : i \in DOMAIN s }

\* ========================================================================
\* PART 1.  The Orchestrator's task queue
\* ========================================================================
TaskIds == 1 .. MaxTasks

QueueInit ==
    /\ taskQueue = << >>
    /\ isProcessing = FALSE
    /\ timers = 0
    /\ inProcess = {}
    /\ future = [ t \in TaskIds |-> "unqueued" ]
    /\ queued = 0

\* startTaskProcessor: every call of initialize() installs one more interval
\* timer; the timers are never cleared.
StartTaskProcessor ==
    /\ timers < MaxInits
    /\ timers' = timers + 1
    /\ UNCHANGED << taskQueue, isProcessing, inProcess, future, queued >>
    /\ UNCHANGED notQueue

\* queueTask: push the task with its resolve/reject pair, return the promise.
QueueTask ==
    /\ queued < MaxTasks
    /\ queued' = queued + 1
    /\ taskQueue' = Append(taskQueue, queued + 1)
    /\ future' = [ future EXCEPT ![queued + 1] = "pending" ]
    /\ UNCHANGED << isProcessing, timers, inProcess >>
    /\ UNCHANGED notQueue

\* A wake-up that ignores the processing flag.
TickProceedsIgnoringFlag == Len(taskQueue) # 0

\* The interval callback's early return, negated:
\*   if (this.isProcessing || this.taskQueue.length === 0) return;
TickProceeds == ~isProcessing /\ Len(taskQueue) # 0

\* One wake-up of an interval timer: up to the await of processTask.
TimerTick ==
    /\ timers > 0
    /\ IF TickProceeds
         THEN /\ isProcessing' = TRUE
              /\ taskQueue' = Tail(taskQueue)
              /\ inProcess' = inProcess \cup { Head(taskQueue) }
         ELSE UNCHANGED << isProcessing, taskQueue, inProcess >>
    /\ UNCHANGED << timers, future, queued >>
    /\ UNCHANGED notQueue

\* A callback that releases the flag only after a task that succeeded.
TaskSettlesKeepsFlag(t, how) ==
    /\ t \in inProcess
    /\ future' = [ future EXCEPT ![t] = how ]
    /\ inProcess' = inProcess \ { t }
    /\ isProcessing' = (how = "rejected")
    /\ UNCHANGED << taskQueue, timers, queued >>
    /\ UNCHANGED notQueue

\* The awaited processTask settles (a response, a remote error, a timeout or
\* a routing failure): the task's promise is settled and the flag released.
TaskSettles(t, how) ==
    /\ t \in inProcess
    /\ future' = [ future EXCEPT ![t] = how ]
    /\ inProcess' = inProcess \ { t }
    /\ isProcessing' = FALSE
    /\ UNCHANGED << taskQueue, timers, queued >>
    /\ UNCHANGED notQueue

QueueNext ==
    \/ StartTaskProcessor
    \/ QueueTask
    \/ TimerTick
    \/ \E t \in TaskIds, how \in { "resolved", "rejected" } : TaskSettles(t, how)


\* ========================================================================
\* PART 2.  Correlated requests over the Message Channel
\* ========================================================================
\* An agent's id is a fresh uuid (no agent is constructed with config.id);
\* a literal string used as an address is a different value.
Id(n) == << "uuid", n >>
Name(s) == << "name", s >>

AgentNames ==
    { "SupervisorAgent", "WorkflowPlannerAgent", "ToolsManagerAgent", "FunctionsAgent" }

\* The constructor of every agent subscribes handleMessage to message:<id>.
Subscribed == { Id(n) : n \in AgentNames }

\* Addresses the two step kinds send to.
ToolStepAddress == Name("ToolsManagerAgent")
FunctionStepAddress == Name("FunctionsAgent")

\* The places a request is sent from, with the addresses and contents they use.
\* content "nil" stands for null/undefined (a routed task without data).
Calls ==
    { [ site |-> "route", from |-> Id("SupervisorAgent"), to |-> Id(a), content |-> c ] :
          a \in { "WorkflowPlannerAgent", "ToolsManagerAgent" }, c \in { "nil", "obj" } }
    \cup { [ site |-> "toolStep", from |-> Id("WorkflowPlannerAgent"),
             to |-> ToolStepAddress, content |-> "obj" ],
           [ site |-> "functionStep", from |-> Id("WorkflowPlannerAgent"),
             to |-> FunctionStepAddress, content |-> "obj" ],
           [ site |-> "direct", from |-> Id("SupervisorAgent"),
             to |-> Name("ghost"), content |-> "obj" ] }

ReqIds == 1 .. Len(reqs)

ReqInit ==
    /\ reqs = << >>
    /\ outcome = << >>
    /\ value = << >>
    /\ timerArmed = {}
    /\ listeners = {}
    /\ serving = {}
    /\ deliveredTo = << >>
    /\ sent = EmptyBag

\* resolve/reject of a promise: only the first call has an effect.
Settle(cur, new) == IF cur = "pending" THEN new ELSE cur

\* A handler that takes every reply envelope as its own.
HandlerMatchesAny(q, requestId) == TRUE

\* if (payload.requestId === requestId)
HandlerMatches(q, requestId) == requestId = q

\* No payload (the promise has not resolved).
NoValue == << >>

\* The payload a responder's reply to request r carries.
Payload(r) == << "data", r >>

\* The sendRequest handlers registered on message:<addr>.
HandlersOn(addr, ls) == { q \in ls : reqs[q].from = addr }

\* sendRequest: arm the timer, register the handler, emit the request.
\* The emit is synchronous: the recipient's handleMessage starts processTask,
\* then every sendRequest handler registered on the same address is called
\* with the request envelope and reads payload.requestId of its content,
\* which throws for a null/undefined content; the throw leaves the executor
\* of the new promise, which rejects the promise with it.
SendRequest(c) ==
    LET r == Len(reqs) + 1
        got == c.to \in Subscribed
        thrown == c.content = "nil" /\ \E q \in listeners \cup { r } :
                      (IF q = r THEN c.from ELSE reqs[q].from) = c.to
    IN  /\ Len(reqs) < MaxReqs
        /\ reqs' = Append(reqs, c)
        /\ timerArmed' = timerArmed \cup { r }
        /\ listeners' = listeners \cup { r }
        /\ serving' = IF got THEN serving \cup { r } ELSE serving
        /\ deliveredTo' = Append(deliveredTo, IF got THEN c.to ELSE Name(None))
        /\ outcome' = Append(outcome, IF thrown THEN "rejected_throw" ELSE "pending")
        /\ value' = Append(value, NoValue)
        /\ UNCHANGED sent
        /\ UNCHANGED notReq

\* The message ids: of the request of call r, of the i-th other envelope.
RequestId(r) == << "request", r >>
EnvelopeId(i) == << "envelope", i >>
NextEnvelopeId == EnvelopeId(BagCardinality(sent) + 1)

\* A handleMessage that runs processTask on every envelope.
AnswersEverything(type) == TRUE

\* handleMessage: if (message.type === 'request')
Answers(type) == type = "request"

\* How processTask settles, and the reply handleMessage sends then:
\* sendResponse after the await, sendError in the catch block.
ProcessTaskResults == { "fulfilled", "rejected" }
ReplyType(res) == IF res = "fulfilled" THEN "response" ELSE "error"

\* sendResponse / sendError (to, requestId, ...): the envelope they send.
ReplyEnvelope(type, from, to, requestId) ==
    [ type |-> type, from |-> from, to |-> to, requestId |-> requestId ]

\* The envelope env (not a request) with the given id is emitted:
\* handleMessage of a subscribed recipient gets it, and if it answers, its
\* reply follows (the processTask in between is taken as immediate and
\* fulfilled, and the delivery of that reply is not followed further).
\* Gives the bag of env and what was sent because of it.
Delivered(env, id) ==
    IF env.to \in Subscribed /\ Answers(env.type)
      THEN SetToBag({ env }) (+) SetToBag({ ReplyEnvelope("response", env.to, env.from, id) })
      ELSE SetToBag({ env })

\* The recipient's processTask settles and handleMessage replies with
\* sendResponse or sendError to message.from with requestId = message.id.
\* The emit calls every handler on message:<from>; the matching ones
\* clear their timer, deregister and settle their promise.
Reply(r, res) ==
    LET hit == { q \in HandlersOn(reqs[r].from, listeners) : HandlerMatches(q, r) }
        kind == ReplyType(res)
        env == ReplyEnvelope(kind, deliveredTo[r], reqs[r].from, RequestId(r))
    IN  /\ r \in serving
        /\ sent' = sent (+) Delivered(env, NextEnvelopeId)
        /\ serving' = serving \ { r }
        /\ timerArmed' = timerArmed \ hit
        /\ listeners' = listeners \ hit
        /\ outcome' = [ q \in ReqIds |->
                          IF q \in hit
                            THEN Settle(outcome[q],
                                        IF kind = "error" THEN "rejected_error" ELSE "resolved")
                            ELSE outcome[q] ]
        /\ value' = [ q \in ReqIds |->
                        IF q \in hit /\ outcome[q] = "pending" /\ kind = "response"
                          THEN Payload(r) ELSE value[q] ]
        /\ UNCHANGED << reqs, deliveredTo >>
        /\ UNCHANGED notReq

\* The 30 s timer fires: reject with the timeout failure (nothing else).
Timeout(r) ==
    /\ r \in timerArmed
    /\ timerArmed' = timerArmed \ { r }
    /\ outcome' = [ outcome EXCEPT ![r] = Settle(@, "rejected_timeout") ]
    /\ UNCHANGED << reqs, value, listeners, serving, deliveredTo, sent >>
    /\ UNCHANGED notReq

\* The agent in the table when broadcast is called.
BroadcastTargets == { "ToolsManagerAgent" }

\* broadcast, with one attached agent a in the table: an envelope of type
\* 'event' (with an object as content) is emitted to message:<a.id>.  The
\* sendRequest handlers registered there find no requestId in it.
Broadcast(a) ==
    LET env == [ type |-> "event", from |-> Id("SupervisorAgent"), to |-> Id(a),
                 requestId |-> NoValue ]
    IN  /\ BagCardinality([ v \in { v \in BagToSet(sent) : v.type = "event" } |-> sent[v] ])
              < MaxBroadcasts
        /\ sent' = sent (+) Delivered(env, NextEnvelopeId)
        /\ UNCHANGED << reqs, outcome, value, timerArmed, listeners, serving, deliveredTo >>
        /\ UNCHANGED notReq

RequestNext ==
    \/ \E c \in Calls : SendRequest(c)
    \/ \E r \in ReqIds, res \in ProcessTaskResults : Reply(r, res)
    \/ \E r \in ReqIds : Timeout(r)
    \/ \E a \in BroadcastTargets : Broadcast(a)

\* ========================================================================
\* PART 3.  The workflow step loop
\* ========================================================================
\* How a request to addr can end for its caller: an address nobody
\* subscribed to never answers, so only the timeout is left (see Timeout).
RequestOutcomes(addr) ==
    IF addr \in Subscribed
      THEN { "resolved", "rejected_error", "rejected_timeout" }
      ELSE { "rejected_timeout" }

\* Four of the built-in workflows, and six workflows registered with
\* registerWorkflow (which accepts any definition): "linear-abc" is A->B->C
\* with a Tool step between two Agent steps, "branching" has steps with a
\* pair as next, one of which sets its own condition field, "dangling" has
\* next references that name no step, "empty" has no step, "each-item" is a
\* Loop step with an Agent step as its nested step, "each-fetch" a Loop
\* step with a Tool step as its nested step.
\* next is << >> (absent), <<id>> (a single id) or <<t, f>> (a pair);
\* condition is the step's own condition field, which no built-in step sets;
\* cfgCondition is config.condition; items and stepId are config.items and
\* config.stepId of a Loop step.
Steps(w) ==
    CASE w = "file-processing" ->
           << [ id |-> "read", type |-> "tool", next |-> << "transform" >>,
                condition |-> None, cfgCondition |-> None,
                items |-> None, stepId |-> None ],
              [ id |-> "transform", type |-> "function", next |-> << "write" >>,
                condition |-> None, cfgCondition |-> None,
                items |-> None, stepId |-> None ],
              [ id |-> "write", type |-> "tool", next |-> << >>,
                condition |-> None, cfgCondition |-> None,
                items |-> None, stepId |-> None ] >>
      [] w = "data-analysis" ->
           << [ id |-> "load", type |-> "tool", next |-> << "parse" >>,
                condition |-> None, cfgCondition |-> None,
                items |-> None, stepId |-> None ],
              [ id |-> "parse", type |-> "tool", next |-> << "analyze" >>,
                condition |-> None, cfgCondition |-> None,
                items |-> None, stepId |-> None ],
              [ id |-> "analyze", type |-> "agent", next |-> << "report" >>,
                condition |-> None, cfgCondition |-> None,
                items |-> None, stepId |-> None ],
              [ id |-> "report", type |-> "agent", next |-> << >>,
                condition |-> None, cfgCondition |-> None,
                items |-> None, stepId |-> None ] >>
      [] w = "git-operations" ->
           << [ id |-> "status", type |-> "tool", next |-> << "check" >>,
                condition |-> None, cfgCondition |-> None,
                items |-> None, stepId |-> None ],
              [ id |-> "check", type |-> "condition", next |-> << "diff", "done" >>,
                condition |-> None, cfgCondition |-> "context.status.length > 0",
                items |-> None, stepId |-> None ],
              [ id |-> "diff", type |-> "tool", next |-> << "done" >>,
                condition |-> None, cfgCondition |-> None,
                items |-> None, stepId |-> None ],
              [ id |-> "done", type |-> "function", next |-> << >>,
                condition |-> None, cfgCondition |-> None,
                items |-> None, stepId |-> None ] >>
      [] w = "multi-step-planner" ->
           << [ id |-> "decompose", type |-> "agent", next |-> << "prioritize" >>,
                condition |-> None, cfgCondition |-> None,
                items |-> None, stepId |-> None ],
              [ id |-> "prioritize", type |-> "agent", next |-> << "execute-loop" >>,
                condition |-> None, cfgCondition |-> None,
                items |-> None, stepId |-> None ],
              [ id |-> "execute-loop", type |-> "loop", next |-> << "summarize" >>,
                condition |-> None, cfgCondition |-> None,
                items |-> "context.steps", stepId |-> "execute-step" ],
              [ id |-> "execute-step", type |-> "agent", next |-> << >>,
                condition |-> None, cfgCondition |-> None,
                items |-> None, stepId |-> None ],
              [ id |-> "summarize", type |-> "agent", next |-> << >>,
                condition |-> None, cfgCondition |-> None,
                items |-> None, stepId |-> None ] >>
      [] w = "dangling" ->
           << [ id |-> "first", type |-> "agent", next |-> << "second" >>,
                condition |-> None, cfgCondition |-> None,
                items |-> None, stepId |-> None ],
              [ id |-> "second", type |-> "tool", next |-> << "missing" >>,
                condition |-> None, cfgCondition |-> None,
                items |-> None, stepId |-> None ] >>
      [] w = "empty" -> << >>
      [] w = "each-item" ->
           << [ id |-> "each", type |-> "loop", next |-> << >>,
                condition |-> None, cfgCondition |-> None,
                items |-> "context.steps", stepId |-> "item" ],
              [ id |-> "item", type |-> "agent", next |-> << >>,
                condition |-> None, cfgCondition |-> None,
                items |-> None, stepId |-> None ] >>
      [] w = "each-fetch" ->
           << [ id |-> "each", type |-> "loop", next |-> << >>,
                condition |-> None, cfgCondition |-> None,
                items |-> "context.steps", stepId |-> "fetch" ],
              [ id |-> "fetch", type |-> "tool", next |-> << >>,
                condition |-> None, cfgCondition |-> None,
                items |-> None, stepId |-> None ] >>
      [] w = "linear-abc" ->
           << [ id |-> "A", type |-> "agent", next |-> << "B" >>,
                condition |-> None, cfgCondition |-> None,
                items |-> None, stepId |-> None ],
              [ id |-> "B", type |-> "tool", next |-> << "C" >>,
                condition |-> None, cfgCondition |-> None,
                items |-> None, stepId |-> None ],
              [ id |-> "C", type |-> "agent", next |-> << >>,
                condition |-> None, cfgCondition |-> None,
                items |-> None, stepId |-> None ] >>
      [] w = "branching" ->
           << [ id |-> "pick", type |-> "agent", next |-> << "left", "right" >>,
                condition |-> "context.status.length > 0", cfgCondition |-> None,
                items |-> None, stepId |-> None ],
              [ id |-> "left", type |-> "tool", next |-> << "right", "end" >>,
                condition |-> None, cfgCondition |-> None,
                items |-> None, stepId |-> None ],
              [ id |-> "right", type |-> "agent", next |-> << >>,
                condition |-> None, cfgCondition |-> None,
                items |-> None, stepId |-> None ],
              [ id |-> "end", type |-> "agent", next |-> << >>,
                condition |-> None, cfgCondition |-> None,
                items |-> None, stepId |-> None ] >>

WorkflowIds ==
    { "file-processing", "data-analysis", "git-operations", "multi-step-planner",
      "linear-abc", "branching", "dangling", "empty", "each-item", "each-fetch" }

\* An id that no registerWorkflow call ever used.
UnknownWorkflowIds == { "ghost" }

\* A value of a context field that is read as a list: an array with its
\* elements, or a value that is not iterable (undefined).
Array(elems) == [ isArray |-> TRUE, elems |-> elems ]
NotIterable == [ isArray |-> FALSE, elems |-> << >> ]
ItemLists == { << >>, << "s1", "s2" >> }

\* The start contexts: {}, { status: '<non-empty string>' } and
\* { steps: [...] }.  currentItem is the field a Loop step writes.
Contexts ==
    { [ status |-> st, steps |-> NotIterable, currentItem |-> "unset" ]
        : st \in { "undefined", "nonempty" } }
    \cup { [ status |-> "undefined", steps |-> Array(l), currentItem |-> "unset" ]
             : l \in ItemLists }

StepIds(w) == { Steps(w)[i].id : i \in DOMAIN Steps(w) }
StepOf(w, id) == CHOOSE st \in Range(Steps(w)) : st.id = id
FirstStep(w) == IF Len(Steps(w)) = 0 THEN None ELSE Steps(w)[1].id

\* SpecWorkflow follows one execution record from its creation (executions
\* are separate records); calls on an id that names no record are included.
ExecSlots == { "the execution" }
MaxExecs == Cardinality(ExecSlots)
ExecIds == 1 .. Len(execs)
CallIds == 1 .. MaxExecs + 1

\* The entry of a workflow in this.workflows; registered = FALSE: no entry.
Available == [ registered |-> TRUE, attached |-> TRUE, enabled |-> TRUE ]
Absent == [ registered |-> FALSE, attached |-> FALSE, enabled |-> FALSE ]

\* The state after initialize (which loads the built-in workflows, all
\* attached and enabled) and the registerWorkflow calls of the others.
WorkflowInit ==
    /\ execs = << >>
    /\ awaiting = << >>
    /\ loops = << >>
    /\ runningExecutions = {}
    /\ visits = << >>
    /\ nested = << >>
    /\ resumes = << >>
    /\ resumedAt = << >>
    /\ workflows = [ w \in WorkflowIds \cup UnknownWorkflowIds |->
                       IF w \in WorkflowIds THEN Available ELSE Absent ]
    /\ lastExecute = [ workflowId |-> None, outcome |-> None, execution |-> 0 ]
    /\ startedEvents = 0
    /\ contextOf = << >>
    /\ slots = MaxExecs
    /\ shutdownAt = 0

\* evaluateCondition: new Function('context','results', 'return ' + condition),
\* false when it throws (context.status undefined).
EvaluateCondition(expr, x) ==
    CASE expr = "true" -> TRUE
      [] expr = "context.status.length > 0" -> x.context.status = "nonempty"
      [] OTHER -> FALSE

\* resolveValue for the paths the workflows use.
ResolveValue(path, x) ==
    CASE path = "context.steps" -> x.context.steps
      [] OTHER -> NotIterable

\* executeLoopStep: the step that config.stepId names in the registered
\* workflow of the execution, None if there is none:
\*   this.workflows.get(execution.workflowId)?.steps.find(s => s.id === stepId)
InnerStep(x, st, reg) ==
    IF reg[x.workflowId].registered /\ st.stepId \in { Steps(x.workflowId)[i].id :
                                                          i \in DOMAIN Steps(x.workflowId) }
      THEN st.stepId
      ELSE None

\* How executeStep can end for a step of each type.  A Loop step that has
\* nothing to await ends at once: with a TypeError if its items are not
\* iterable, with its list otherwise (see IterationReturns for the others).
StepOutcomes(st) ==
    CASE st.type = "tool" -> RequestOutcomes(ToolStepAddress)
      [] st.type = "function" -> RequestOutcomes(FunctionStepAddress)
      [] OTHER -> { "resolved" }

LoopOutcomes(x, st) ==
    IF ResolveValue(st.items, x).isArray THEN { "resolved" } ELSE { "rejected_error" }

\* What executeStep returns on success; "list" stands for the array of a
\* Loop step, whose elements are in lists[step id].
StepResult(st, x) ==
    CASE st.type \in { "tool", "function" } -> "data"
      [] st.type = "agent" -> "agentResult"
      [] st.type = "condition" ->
            IF EvaluateCondition(st.cfgCondition, x) THEN "true" ELSE "false"
      [] st.type = "loop" -> "list"

\* A loop condition that does not look at the status.
LoopContinuesWhateverStatus(x, pos) == pos # None /\ pos \in StepIds(x.workflowId)

\* while (currentStepId && execution.status === 'running') {
\*   const step = stepMap.get(currentStepId); if (!step) break;
LoopContinues(x, pos) ==
    /\ pos # None
    /\ x.status = "running"
    /\ pos \in StepIds(x.workflowId)

\* A loop head that fails the execution when currentStepId names no step.
LoopHeadStrict(x, pos) ==
    IF LoopContinues(x, pos)
      THEN [ exec |-> [ x EXCEPT !.currentStep = pos ], began |-> TRUE ]
      ELSE [ exec |-> [ x EXCEPT !.status =
                                    IF @ = "running"
                                      THEN IF pos = None THEN "completed" ELSE "failed"
                                      ELSE @,
                                 !.errors = IF pos = None \/ x.status # "running"
                                              THEN @ ELSE Append(@, pos),
                                 !.endTimeSets = @ + 1 ],
             began |-> FALSE ]

\* The head of the while loop, reached with currentStepId = pos: either the
\* step at pos begins (up to the await of executeStep), or the loop is left
\* and the run is closed (lines 354-360).
LoopHead(x, pos) ==
    IF LoopContinues(x, pos)
      THEN [ exec |-> [ x EXCEPT !.currentStep = pos ], began |-> TRUE ]
      ELSE [ exec |-> [ x EXCEPT !.status = IF @ = "running" THEN "completed" ELSE @,
                                 !.endTimeSets = @ + 1 ],
             began |-> FALSE ]

\* A catch branch that also stores a partial result for the failed step.
RecordFailureWithResult(x, st) ==
    [ x EXCEPT !.errors = Append(@, st.id), !.results[st.id] = "partial" ]

\* The catch branch records the failure:
\*   execution.errors.push(`Step ${step.name}: ${errorMsg}`)
RecordFailure(x, st) == [ x EXCEPT !.errors = Append(@, st.id) ]

\* A catch branch that goes on with the first successor, whatever next is.
FailsForwardToFirst(st) == Len(st.next) >= 1

\* The catch branch continues with the next step:
\*   if (step.next && !Array.isArray(step.next))
FailsForward(st) == Len(st.next) = 1

\* execution.results[step.id] = result, for a result that is the array list
\* if the step is a Loop step.
Recorded(x, st, list) ==
    [ x EXCEPT !.results[st.id] = StepResult(st, x),
               !.lists[st.id] = IF st.type = "loop" THEN list ELSE @ ]

\* The body of the loop after the await: the try branch (record the result,
\* choose the next step) or the catch branch (record the error, fail forward
\* or fail).  Gives the execution and the next currentStepId (None: break).
AfterStepWith(x, st, out, list) ==
    IF out = "resolved"
      THEN LET y == Recorded(x, st, list)
           IN  [ exec |-> y,
                 pos |-> CASE Len(st.next) = 0 -> None
                           [] Len(st.next) = 1 -> st.next[1]
                           [] OTHER ->
                                IF EvaluateCondition(
                                     IF st.condition = None THEN "true" ELSE st.condition, y)
                                  THEN st.next[1] ELSE st.next[2] ]
      ELSE LET y == RecordFailure(x, st)
           IN  IF FailsForward(st)
                 THEN [ exec |-> y, pos |-> st.next[1] ]
                 ELSE [ exec |-> [ y EXCEPT !.status = "failed" ], pos |-> None ]

AfterStep(x, st, out) == AfterStepWith(x, st, out, << >>)

\* A step begins at the head of the while loop, up to its first await.  For
\* a Loop step that is the synchronous start of executeLoopStep: with items
\* to go through and a nested step, currentItem becomes the first item and
\* the nested step begins (iterating); without a nested step the for loop
\* runs through all items at once.
Begin(x, pos, reg) ==
    LET h == LoopHead(x, pos)
        st == StepOf(x.workflowId, pos)
        items == ResolveValue(st.items, x)
        inner == InnerStep(x, st, reg)
    IN  IF ~h.began \/ st.type # "loop" \/ ~items.isArray \/ Len(items.elems) = 0
          THEN [ exec |-> h.exec, began |-> h.began, iterating |-> FALSE, inner |-> None ]
          ELSE IF inner = None
                 THEN [ exec |-> [ h.exec EXCEPT !.context.currentItem =
                                                   items.elems[Len(items.elems)] ],
                        began |-> TRUE, iterating |-> FALSE, inner |-> None ]
                 ELSE [ exec |-> [ h.exec EXCEPT !.context.currentItem = items.elems[1] ],
                        began |-> TRUE, iterating |-> TRUE, inner |-> inner ]

\* The bookkeeping of the model after Begin(x, pos, reg) = b: the run awaits
\* the step at pos, or the first iteration of the Loop step at pos.
AwaitingAfter(aw, b, pos) ==
    [ i \in DOMAIN aw |-> aw[i] + (IF b.began /\ ~b.iterating /\ i = pos THEN 1 ELSE 0) ]
VisitsAfter(v, b, pos) ==
    [ i \in DOMAIN v |-> v[i] + (IF b.began /\ i = pos THEN 1 ELSE 0) ]
NestedAfter(v, b) ==
    [ i \in DOMAIN v |-> v[i] + (IF b.iterating /\ i = b.inner THEN 1 ELSE 0) ]
LoopsAfter(l, b, pos) ==
    IF b.iterating
      THEN l (+) SetToBag({ [ step |-> pos, iter |-> 1, results |-> << >>,
                              settled |-> None ] })
      ELSE l

\* The runs of execution e that are awaiting a step, and the steps begun.
NumInFlight(e) == LET n[S \in SUBSET DOMAIN awaiting[e]] ==
                          IF S = {} THEN 0
                          ELSE LET id == CHOOSE i \in S : TRUE
                               IN  awaiting[e][id] + n[S \ { id }]
                  IN  n[DOMAIN awaiting[e]] + BagCardinality(loops[e])
NumVisits(e) == LET n[S \in SUBSET DOMAIN visits[e]] ==
                        IF S = {} THEN 0
                        ELSE LET id == CHOOSE i \in S : TRUE
                             IN  visits[e][id] + n[S \ { id }]
                IN  n[DOMAIN visits[e]]

\* executeWorkflow's two guards:
\*   if (!workflow) throw new Error(`Workflow not found: ...`)
\*   if (!workflow.attached || !workflow.enabled) throw ... not available
ExecuteFailure(entry) ==
    IF ~entry.registered THEN "Workflow not found"
    ELSE IF ~entry.attached \/ ~entry.enabled THEN "Workflow not available"
    ELSE None

\* Two executions that were given one and the same context object.
SameObjectAlways(refs, f, e) == TRUE

\* execution.context of f and of e is the same object:
\*   const execution = { ..., context, ... }   (the reference is stored)
SameObject(refs, f, e) == refs[f] = refs[e]

\* The execution records xs after execution e wrote to its context: the
\* executions holding the same object see the write.
WithContextOf(e, xs, refs) ==
    [ f \in DOMAIN xs |-> IF SameObject(refs, f, e)
                            THEN [ xs[f] EXCEPT !.context = xs[e].context ]
                            ELSE xs[f] ]

\* executeWorkflow with the context object ref, whose content is ctx: create
\* the record, emit workflow:started, then runWorkflow runs synchronously up
\* to its first await.
ExecuteWith(w, ctx, ref) ==
    LET e == Len(execs) + 1
        x == [ workflowId |-> w, status |-> "running", currentStep |-> FirstStep(w),
               endTimeSets |-> 0, context |-> ctx, inMap |-> TRUE,
               results |-> [ id \in StepIds(w) |-> "absent" ],
               lists |-> [ id \in StepIds(w) |-> << >> ], errors |-> << >> ]
        b == Begin(x, FirstStep(w), workflows)
        none == [ id \in StepIds(w) |-> 0 ]
    IN  IF ExecuteFailure(workflows[w]) # None
          THEN /\ lastExecute' = [ workflowId |-> w, outcome |-> ExecuteFailure(workflows[w]),
                                   execution |-> 0 ]
               /\ UNCHANGED << execs, awaiting, loops, runningExecutions, visits, nested,
                               resumes, resumedAt, workflows, startedEvents,
                               contextOf, slots, shutdownAt >>
               /\ UNCHANGED notWorkflow
          ELSE /\ Len(execs) < slots
               /\ execs' = WithContextOf(e, Append(execs, b.exec), Append(contextOf, ref))
               /\ awaiting' = Append(awaiting, AwaitingAfter(none, b, FirstStep(w)))
               /\ loops' = Append(loops, LoopsAfter(EmptyBag, b, FirstStep(w)))
               /\ visits' = Append(visits, VisitsAfter(none, b, FirstStep(w)))
               /\ nested' = Append(nested, NestedAfter(none, b))
               /\ runningExecutions' = IF b.began THEN runningExecutions \cup { e }
                                                  ELSE runningExecutions \ { e }
               /\ resumes' = Append(resumes, 0)
               /\ resumedAt' = Append(resumedAt, << >>)
               /\ lastExecute' = [ workflowId |-> w, outcome |-> "returned", execution |-> e ]
               /\ startedEvents' = startedEvents + 1
               /\ contextOf' = Append(contextOf, ref)
               /\ UNCHANGED << workflows, slots, shutdownAt >>
               /\ UNCHANGED notWorkflow

\* executeWorkflow(workflowId, context) with an object of its own as context
\* (the default {} included).
ExecuteWorkflow(w, ctx) == ExecuteWith(w, ctx, Len(execs) + 1)

\* executeWorkflow(workflowId, context) with the context object that
\* execution f was given.
ExecuteWorkflowShared(w, f) ==
    /\ f \in ExecIds
    /\ ExecuteWith(w, execs[f].context, contextOf[f])

\* A run of execution e goes on after its awaited step: a is what the loop
\* body made of the settled step, aw and lp are awaiting[e] and loops[e]
\* without that step.  The loop head is evaluated again and the next step
\* begins, all without suspension.
RunGoesOn(e, a, aw, lp) ==
    LET b == Begin(a.exec, a.pos, workflows)
    IN  /\ execs' = WithContextOf(e, [ execs EXCEPT ![e] = b.exec ], contextOf)
        /\ awaiting' = [ awaiting EXCEPT ![e] = AwaitingAfter(aw, b, a.pos) ]
        /\ loops' = [ loops EXCEPT ![e] = LoopsAfter(lp, b, a.pos) ]
        /\ visits' = [ visits EXCEPT ![e] = VisitsAfter(@, b, a.pos) ]
        /\ nested' = [ nested EXCEPT ![e] = NestedAfter(@, b) ]
        /\ runningExecutions' = IF b.began THEN runningExecutions
                                           ELSE runningExecutions \ { e }
        /\ UNCHANGED << resumes, resumedAt, workflows, lastExecute, startedEvents,
                    contextOf, slots, shutdownAt >>
        /\ UNCHANGED notWorkflow

\* The awaited executeStep of a run of execution e that is at step id
\* settles; the loop body finishes and the run goes on.
StepReturns(e, id, out) ==
    LET st == StepOf(execs[e].workflowId, id)
    IN  /\ awaiting[e][id] > 0
        /\ out \in IF st.type = "loop" THEN LoopOutcomes(execs[e], st) ELSE StepOutcomes(st)
        /\ RunGoesOn(e, AfterStep(execs[e], st, out),
                     [ awaiting[e] EXCEPT ![id] = @ - 1 ], loops[e])

\* The for loop of executeLoopStep after an iteration whose result was
\* collected: the items that are left, from the one after iter on.  With the
\* nested step still to be found the next iteration begins; without it (the
\* workflow is no longer registered) the loop runs through the rest at once.
NextIteration(x, st, act, collected, reg) ==
    LET elems == ResolveValue(st.items, x).elems
    IN  IF act.iter < Len(elems) /\ InnerStep(x, st, reg) # None
          THEN [ exec |-> [ x EXCEPT !.context.currentItem = elems[act.iter + 1] ],
                 done |-> FALSE,
                 act |-> [ step |-> act.step, iter |-> act.iter + 1, results |-> collected,
                           settled |-> None ] ]
          ELSE [ exec |-> IF act.iter < Len(elems)
                            THEN [ x EXCEPT !.context.currentItem = elems[Len(elems)] ]
                            ELSE x,
                 done |-> TRUE,
                 act |-> act ]

\* The awaited executeStep of the nested step settles in the executeLoopStep
\* call act of execution e.  A result is pushed and the for loop goes on: to
\* the next iteration, or to its end, where executeLoopStep returns the
\* list.  A failure leaves executeLoopStep, so the Loop step itself fails.
\* The runWorkflow that awaits the Loop step resumes later.
IterationReturns(e, act, out) ==
    LET x == execs[e]
        st == StepOf(x.workflowId, act.step)
        inner == StepOf(x.workflowId, st.stepId)
        rest == loops[e] (-) SetToBag({ act })
        collected == Append(act.results, StepResult(inner, x))
        n == NextIteration(x, st, act, collected, workflows)
    IN  /\ BagIn(act, loops[e])
        /\ act.settled = None
        /\ out \in StepOutcomes(inner)
        /\ IF out = "resolved"
             THEN /\ execs' = WithContextOf(e, [ execs EXCEPT ![e] = n.exec ], contextOf)
                  /\ loops' = [ loops EXCEPT ![e] =
                                  rest (+) SetToBag({ IF n.done
                                                        THEN [ act EXCEPT !.results = collected,
                                                                          !.settled = out ]
                                                        ELSE n.act }) ]
                  /\ nested' = [ nested EXCEPT ![e][st.stepId] =
                                   IF n.done THEN @ ELSE @ + 1 ]
             ELSE /\ loops' = [ loops EXCEPT ![e] =
                                  rest (+) SetToBag({ [ act EXCEPT !.settled = out ] }) ]
                  /\ UNCHANGED << execs, nested >>
        /\ UNCHANGED << awaiting, runningExecutions, visits, resumes, resumedAt,
                        workflows, lastExecute, startedEvents,
                        contextOf, slots, shutdownAt >>
        /\ UNCHANGED notWorkflow

\* The await of executeStep in runWorkflow resumes with the Loop step that
\* executeLoopStep call act has returned from or thrown out of; the loop
\* body finishes and the run goes on.
LoopStepReturns(e, act) ==
    LET st == StepOf(execs[e].workflowId, act.step)
    IN  /\ BagIn(act, loops[e])
        /\ act.settled # None
        /\ RunGoesOn(e, AfterStepWith(execs[e], st, act.settled, act.results),
                     awaiting[e], loops[e] (-) SetToBag({ act }))

\* cancelExecution's guard, negated (it returns false when this is false):
\*   if (!execution || execution.status !== 'running') return false;
Cancellable(e) == e \in ExecIds /\ execs[e].inMap /\ execs[e].status = "running"

CancelExecution(e) ==
    /\ IF Cancellable(e)
         THEN /\ execs' = [ execs EXCEPT ![e].status = "failed",
                                         ![e].errors = Append(@, "Cancelled by user"),
                                         ![e].endTimeSets = @ + 1 ]
              /\ runningExecutions' = runningExecutions \ { e }
         ELSE UNCHANGED << execs, runningExecutions >>
    /\ UNCHANGED << awaiting, loops, visits, nested, resumes, resumedAt,
                    workflows, lastExecute, startedEvents,
                    contextOf, slots, shutdownAt >>
    /\ UNCHANGED notWorkflow

\* A pauseExecution that pauses whatever the status of the execution is.
PausableWhateverStatus(e) == e \in ExecIds /\ execs[e].inMap

\* pauseExecution's guard, negated (it returns false when this is false).
Pausable(e) == e \in ExecIds /\ execs[e].inMap /\ execs[e].status = "running"

PauseExecution(e) ==
    /\ IF Pausable(e)
         THEN execs' = [ execs EXCEPT ![e].status = "paused" ]
         ELSE UNCHANGED execs
    /\ UNCHANGED << awaiting, loops, runningExecutions, visits, nested, resumes,
                    resumedAt, workflows, lastExecute, startedEvents,
                    contextOf, slots, shutdownAt >>
    /\ UNCHANGED notWorkflow

\* resumeExecution's guard, negated (it returns false when this is false).
Resumable(e) == e \in ExecIds /\ execs[e].inMap /\ execs[e].status = "paused"

\* The step a resumed run starts with: let currentStepId = workflow.steps[0]?.id
ResumeStart(x) == FirstStep(x.workflowId)

\* resumeExecution: set the status back and, if the workflow is still
\* registered, call runWorkflow again, which runs up to its first await.
ResumeExecution(e) ==
    /\ IF Resumable(e)
         THEN LET start == ResumeStart(execs[e])
                  x == [ execs[e] EXCEPT !.status = "running" ]
                  b == IF workflows[x.workflowId].registered
                         THEN Begin(x, start, workflows)
                         ELSE [ exec |-> x, began |-> FALSE, iterating |-> FALSE,
                                inner |-> None ]
              IN  /\ resumes[e] < MaxResumes
                  /\ resumes' = [ resumes EXCEPT ![e] = @ + 1 ]
                  /\ execs' = WithContextOf(e, [ execs EXCEPT ![e] = b.exec ], contextOf)
                  /\ awaiting' = [ awaiting EXCEPT ![e] = AwaitingAfter(@, b, start) ]
                  /\ loops' = [ loops EXCEPT ![e] = LoopsAfter(@, b, start) ]
                  /\ visits' = [ visits EXCEPT ![e] = VisitsAfter(@, b, start) ]
                  /\ nested' = [ nested EXCEPT ![e] = NestedAfter(@, b) ]
                  /\ runningExecutions' =
                        IF b.began \/ ~workflows[x.workflowId].registered
                          THEN runningExecutions
                          ELSE runningExecutions \ { e }
                  /\ resumedAt' = [ resumedAt EXCEPT ![e] =
                                      << execs[e].currentStep,
                                         IF b.began THEN start ELSE None >> ]
         ELSE UNCHANGED << execs, awaiting, loops, runningExecutions, visits, nested,
                           resumes, resumedAt >>
    /\ UNCHANGED << workflows, lastExecute, startedEvents,
                    contextOf, slots, shutdownAt >>
    /\ UNCHANGED notWorkflow

\* The workflows that registerWorkflow, unregisterWorkflow, attachWorkflow
\* and detachWorkflow are called for.
ToggledWorkflows == { "linear-abc", "empty" }

\* registerWorkflow: this.workflows.set(workflow.id, workflow), with the
\* flags the definition carries.
RegisterWorkflow(w, attached, enabled) ==
    /\ workflows' = [ workflows EXCEPT ![w] = [ registered |-> TRUE, attached |-> attached,
                                                enabled |-> enabled ] ]
    /\ UNCHANGED << execs, awaiting, loops, runningExecutions, visits, nested, resumes,
                    resumedAt, lastExecute, startedEvents,
                    contextOf, slots, shutdownAt >>
    /\ UNCHANGED notWorkflow

UnregisterWorkflow(w) ==
    /\ workflows' = [ workflows EXCEPT ![w] = Absent ]
    /\ UNCHANGED << execs, awaiting, loops, runningExecutions, visits, nested, resumes,
                    resumedAt, lastExecute, startedEvents,
                    contextOf, slots, shutdownAt >>
    /\ UNCHANGED notWorkflow

\* attachWorkflow / detachWorkflow: set the flag of an entry that exists.
SetWorkflowAttached(w, flag) ==
    /\ workflows' = IF workflows[w].registered
                      THEN [ workflows EXCEPT ![w].attached = flag ]
                      ELSE workflows
    /\ UNCHANGED << execs, awaiting, loops, runningExecutions, visits, nested, resumes,
                    resumedAt, lastExecute, startedEvents,
                    contextOf, slots, shutdownAt >>
    /\ UNCHANGED notWorkflow

AttachWorkflow(w) == SetWorkflowAttached(w, TRUE)
DetachWorkflow(w) == SetWorkflowAttached(w, FALSE)

\* The calls on the table of workflows, and executeWorkflow.
RegistryNext ==
    \/ \E w \in ToggledWorkflows, attached \in BOOLEAN, enabled \in BOOLEAN :
          RegisterWorkflow(w, attached, enabled)
    \/ \E w \in ToggledWorkflows : UnregisterWorkflow(w)
    \/ \E w \in ToggledWorkflows : AttachWorkflow(w)
    \/ \E w \in ToggledWorkflows : DetachWorkflow(w)
    \/ \E w \in WorkflowIds \cup UnknownWorkflowIds, ctx \in Contexts : ExecuteWorkflow(w, ctx)

\* Two executions side by side: the workflows and the context they are
\* started with.
ConcurrentWorkflows == { "each-item", "dangling" }
ConcurrentContexts ==
    { [ status |-> "undefined", steps |-> Array(<< "s1", "s2" >>), currentItem |-> "unset" ] }

\* The loop of shutdown of the workflow agent after the execution last:
\*   for (const executionId of this.runningExecutions)
\*     await this.cancelExecution(executionId);
\* The Set is gone through in insertion order, which is the order of the
\* executions, and as it is at each turn.  cancelExecution cancels an
\* execution that is in the Map with status 'running' and returns false for
\* another; the loop awaits it either way.  Past the last id
\* workflows.clear() and executions.clear() are called.  The runs in flight
\* keep their execution object and their step map.
ShutdownLoop(last) ==
    LET left == { e \in runningExecutions : e > last }
        next == CHOOSE e \in left : \A f \in left : e <= f
    IN  IF left = {}
          THEN /\ execs' = [ e \in ExecIds |-> [ execs[e] EXCEPT !.inMap = FALSE ] ]
               /\ workflows' = [ w \in DOMAIN workflows |-> Absent ]
               /\ shutdownAt' = 0
               /\ UNCHANGED runningExecutions
          ELSE /\ IF Cancellable(next)
                    THEN /\ execs' = [ execs EXCEPT ![next].status = "failed",
                                                    ![next].errors = Append(@, "Cancelled by user"),
                                                    ![next].endTimeSets = @ + 1 ]
                         /\ runningExecutions' = runningExecutions \ { next }
                    ELSE UNCHANGED << execs, runningExecutions >>
               /\ shutdownAt' = next
               /\ UNCHANGED workflows

\* shutdown() up to its first await, or to its end when runningExecutions is
\* empty.  (One shutdown at a time is followed.)
ShutdownWorkflowAgent ==
    /\ shutdownAt = 0
    /\ ShutdownLoop(0)
    /\ UNCHANGED << awaiting, loops, visits, nested, resumes, resumedAt,
                    lastExecute, startedEvents, contextOf, slots >>
    /\ UNCHANGED notWorkflow

\* The await of shutdown() resumes: the next id, or the two clear() calls.
ShutdownResumes ==
    /\ shutdownAt # 0
    /\ ShutdownLoop(shutdownAt)
    /\ UNCHANGED << awaiting, loops, visits, nested, resumes, resumedAt,
                    lastExecute, startedEvents, contextOf, slots >>
    /\ UNCHANGED notWorkflow

\* initialize() of the workflow agent (start() after a stop()):
\* loadBuiltInWorkflows registers the built-in workflows again, attached and
\* enabled (the four of them that are followed here).
BuiltInWorkflows == { "file-processing", "data-analysis", "git-operations",
                      "multi-step-planner" }
InitializeWorkflowAgent ==
    /\ workflows' = [ w \in DOMAIN workflows |->
                        IF w \in BuiltInWorkflows THEN Available ELSE workflows[w] ]
    /\ UNCHANGED << execs, awaiting, loops, runningExecutions, visits, nested, resumes,
                    resumedAt, lastExecute, startedEvents, contextOf, slots, shutdownAt >>
    /\ UNCHANGED notWorkflow

\* The workflows executed in the runs that a shutdown ends: two registered
\* with registerWorkflow and a built-in one, which initialize registers
\* again.
ShutdownWorkflows == { "linear-abc", "each-item", "multi-step-planner" }

ShutdownNext ==
    \/ \E w \in ShutdownWorkflows, ctx \in ConcurrentContexts : ExecuteWorkflow(w, ctx)
    \/ \E e \in ExecIds : \E id \in DOMAIN awaiting[e] :
          \E out \in { "resolved", "rejected_error", "rejected_timeout" } :
              StepReturns(e, id, out)
    \/ \E e \in ExecIds : \E act \in BagToSet(loops[e]) :
          \E out \in { "resolved", "rejected_error", "rejected_timeout" } :
              IterationReturns(e, act, out)
    \/ \E e \in ExecIds : PauseExecution(e)
    \/ \E e \in ExecIds : \E act \in BagToSet(loops[e]) : LoopStepReturns(e, act)
    \/ \E e \in ExecIds : ResumeExecution(e)
    \/ ShutdownWorkflowAgent
    \/ ShutdownResumes
    \/ InitializeWorkflowAgent
    \/ \E w \in ShutdownWorkflows \ BuiltInWorkflows : RegisterWorkflow(w, TRUE, TRUE)

ConcurrentNext ==
    \/ \E w \in ConcurrentWorkflows, ctx \in ConcurrentContexts : ExecuteWorkflow(w, ctx)
    \/ \E w \in ConcurrentWorkflows, f \in ExecIds : ExecuteWorkflowShared(w, f)
    \/ \E e \in ExecIds : \E id \in DOMAIN awaiting[e] :
          \E out \in { "resolved", "rejected_error", "rejected_timeout" } :
              StepReturns(e, id, out)
    \/ \E e \in ExecIds : \E act \in BagToSet(loops[e]) :
          \E out \in { "resolved", "rejected_error", "rejected_timeout" } :
              IterationReturns(e, act, out)
    \/ \E e \in ExecIds : \E act \in BagToSet(loops[e]) : LoopStepReturns(e, act)
    \/ \E e \in ExecIds : CancelExecution(e)
    \/ \E e \in ExecIds : PauseExecution(e)
    \/ \E e \in ExecIds : ResumeExecution(e)

\* The workflows with a Loop step, and the start contexts without a list.
LoopWorkflows == { "multi-step-planner", "each-item", "each-fetch" }
PlainContexts == { c \in Contexts : ~c.steps.isArray }

\* Executions of the workflows with a Loop step, and the calls that change
\* the table of workflows a Loop step looks its nested step up in:
\* unregisterWorkflow and registerWorkflow for the workflow of an execution,
\* and shutdown, which clears the table.
LoopsNext ==
    \/ \E w \in LoopWorkflows, ctx \in Contexts : ExecuteWorkflow(w, ctx)
    \/ \E e \in ExecIds : UnregisterWorkflow(execs[e].workflowId)
    \/ \E e \in ExecIds : RegisterWorkflow(execs[e].workflowId, TRUE, TRUE)
    \/ ShutdownWorkflowAgent
    \/ ShutdownResumes
    \/ \E e \in ExecIds : \E id \in DOMAIN awaiting[e] :
          \E out \in { "resolved", "rejected_error", "rejected_timeout" } :
              StepReturns(e, id, out)
    \/ \E e \in ExecIds : \E act \in BagToSet(loops[e]) :
          \E out \in { "resolved", "rejected_error", "rejected_timeout" } :
              IterationReturns(e, act, out)
    \/ \E e \in ExecIds : \E act \in BagToSet(loops[e]) : LoopStepReturns(e, act)
    \/ \E e \in CallIds : CancelExecution(e)
    \/ \E e \in CallIds : PauseExecution(e)
    \/ \E e \in CallIds : ResumeExecution(e)

\* Executions of the workflows without a Loop step.
WorkflowNext ==
    \/ \E w \in (WorkflowIds \ LoopWorkflows) \cup UnknownWorkflowIds, ctx \in PlainContexts :
          ExecuteWorkflow(w, ctx)
    \/ \E e \in ExecIds : \E id \in DOMAIN awaiting[e] :
          \E out \in { "resolved", "rejected_error", "rejected_timeout" } :
              StepReturns(e, id, out)
    \/ \E e \in CallIds : CancelExecution(e)
    \/ \E e \in CallIds : PauseExecution(e)
    \/ \E e \in CallIds : ResumeExecution(e)

\* ========================================================================
\* PART 4.  Agent lifecycle and the Supervisor's error recovery
\* ========================================================================
\* One agent is followed: handleAgentError(agentId) reads and writes the
\* record and the status of that agent only.
SubAgents == { "X" }

\* A handleAgentError call is awaiting stop()'s shutdown hook, the 1 s
\* delay, or start()'s initialize hook, or its start() has rejected and its
\* catch block has not run yet ("catch").  Its origin tells which start()
\* emitted the agent:error event that began it: one called from outside
\* ("outside") or the restart of an earlier recovery ("restart").  It holds
\* the record it read when it began (const info = this.subAgents.get(id)):
\* the record of the Map ("current"), or one that was replaced or deleted
\* since ("stale").
Phases == { "stopHook", "delay", "startHook", "catch" }
Origins == { "outside", "restart" }
Infos == { "current", "stale" }
RecStates == Phases \X Origins \X Infos

\* The sum of a count per agent.
Total(f) == LET n[S \in SUBSET SubAgents] ==
                    IF S = {} THEN 0
                    ELSE LET a == CHOOSE b \in S : TRUE IN f[a] + n[S \ { a }]
            IN  n[SubAgents]

AgentsInit ==
    /\ agStatus = [ a \in SubAgents |-> "idle" ]
    /\ registry = [ a \in SubAgents |-> "unregistered" ]
    /\ errHandlers = 0
    /\ extStarting = [ a \in SubAgents |-> 0 ]
    /\ extStarts = [ a \in SubAgents |-> 0 ]
    /\ extStopping = [ a \in SubAgents |-> 0 ]
    /\ extStops = [ a \in SubAgents |-> 0 ]
    /\ recovering = [ a \in SubAgents |-> [ ps \in RecStates |-> 0 ] ]
    /\ restarts = [ a \in SubAgents |-> [ o \in Origins |-> 0 ] ]

\* The recoveries of an agent once its record is no longer in the Map: the
\* records they hold are all stale.
Stale(bag) ==
    [ ps \in RecStates |->
        IF ps[3] = "stale" THEN bag[ps] + bag[<< ps[1], ps[2], "current" >>] ELSE 0 ]

\* registerAgent: Map.set of a fresh record with attached: true, whether
\* the agent has a record or not.
RegisterAgent(a) ==
    /\ registry' = [ registry EXCEPT ![a] = "attached" ]
    /\ recovering' = [ recovering EXCEPT ![a] = Stale(@) ]
    /\ UNCHANGED << agStatus, errHandlers, extStarting, extStarts, extStopping,
                    extStops, restarts >>
    /\ UNCHANGED notAgents

\* unregisterAgent: the record is deleted, if there is one.
RegistryUnregisterAgent(a) ==
    /\ registry' = [ registry EXCEPT ![a] = "unregistered" ]
    /\ recovering' = [ recovering EXCEPT ![a] = Stale(@) ]
    /\ UNCHANGED << agStatus, errHandlers, extStarting, extStarts, extStopping,
                    extStops, restarts >>
    /\ UNCHANGED notAgents

\* attachAgent / detachAgent: the flag of the record is set, if there is one.
RegistrySetAttached(a, flag) ==
    /\ registry' = [ registry EXCEPT ![a] =
                       IF @ = "unregistered" THEN @
                       ELSE IF flag THEN "attached" ELSE "detached" ]
    /\ UNCHANGED << agStatus, errHandlers, extStarting, extStarts, extStopping,
                    extStops, recovering, restarts >>
    /\ UNCHANGED notAgents

RegistryAttachAgent(a) == RegistrySetAttached(a, TRUE)
RegistryDetachAgent(a) == RegistrySetAttached(a, FALSE)

\* SupervisorAgent.initialize: one more handler on agent:error.
SubscribeAgentError ==
    /\ errHandlers < MaxInits
    /\ errHandlers' = errHandlers + 1
    /\ UNCHANGED << agStatus, registry, extStarting, extStarts, extStopping,
                    extStops, recovering, restarts >>
    /\ UNCHANGED notAgents

\* The number of handleAgentError calls an agent:error event of agent a
\* begins: one per subscribed handler, unless a has no record
\* (if (!info) return).  reg is the registry at the time of the event.
RecoveriesBegun(a, reg) ==
    IF reg[a] = "unregistered" THEN 0 ELSE errHandlers

\* The bag of recoveries of a after an agent:error event emitted by a start()
\* of the given origin: each handleAgentError call reads the record and runs
\* up to its await of stop(), which finds the status 'error' and calls the
\* shutdown hook.
WithNewRecoveries(bag, a, origin) ==
    [ bag EXCEPT ![ << "stopHook", origin, "current" >> ] = @ + RecoveriesBegun(a, registry) ]

\* start() called from outside (startAllAgents, or any caller): a no-op when
\* the status is 'running', else the status is set and initialize awaited.
StartAgent(a) ==
    /\ Total(extStarts) < MaxExtStarts
    /\ extStarts' = [ extStarts EXCEPT ![a] = @ + 1 ]
    /\ IF agStatus[a] = "running"
         THEN UNCHANGED << agStatus, extStarting >>
         ELSE /\ agStatus' = [ agStatus EXCEPT ![a] = "running" ]
              /\ extStarting' = [ extStarting EXCEPT ![a] = @ + 1 ]
    /\ UNCHANGED << registry, errHandlers, extStopping, extStops, recovering, restarts >>
    /\ UNCHANGED notAgents

\* The initialize hook awaited by an outside start() settles.  On failure
\* the status becomes 'error' and agent:error is emitted, which runs the
\* Supervisor's handlers synchronously.
InitializeReturns(a, ok) ==
    /\ extStarting[a] > 0
    /\ extStarting' = [ extStarting EXCEPT ![a] = @ - 1 ]
    /\ IF ok
         THEN UNCHANGED << agStatus, recovering >>
         ELSE /\ agStatus' = [ agStatus EXCEPT ![a] = "error" ]
              /\ recovering' = [ recovering EXCEPT ![a] =
                                   WithNewRecoveries(@, a, "outside") ]
    /\ UNCHANGED << registry, errHandlers, extStarts, extStopping, extStops, restarts >>
    /\ UNCHANGED notAgents

\* stop() called from outside (SupervisorAgent.shutdown, or any caller): a
\* no-op when the status is 'stopped', else the shutdown hook is awaited.
StopAgent(a) ==
    /\ Total(extStops) < MaxExtStops
    /\ extStops' = [ extStops EXCEPT ![a] = @ + 1 ]
    /\ extStopping' = IF agStatus[a] = "stopped"
                        THEN extStopping
                        ELSE [ extStopping EXCEPT ![a] = @ + 1 ]
    /\ UNCHANGED << agStatus, registry, errHandlers, extStarting, extStarts,
                    recovering, restarts >>
    /\ UNCHANGED notAgents

\* The shutdown hook awaited by an outside stop() settles: the status
\* becomes 'stopped' unless the hook threw.
StopAgentReturns(a, ok) ==
    /\ extStopping[a] > 0
    /\ extStopping' = [ extStopping EXCEPT ![a] = @ - 1 ]
    /\ agStatus' = [ agStatus EXCEPT ![a] = IF ok THEN "stopped" ELSE @ ]
    /\ UNCHANGED << registry, errHandlers, extStarting, extStarts, extStops,
                    recovering, restarts >>
    /\ UNCHANGED notAgents

\* The shutdown hook awaited by a recovery's stop() settles: the status
\* becomes 'stopped' unless the hook threw; stop() never throws, and the
\* recovery goes on to its delay.
RecoveryStopReturns(a, o, i, ok) ==
    /\ recovering[a][<< "stopHook", o, i >>] > 0
    /\ recovering' = [ recovering EXCEPT ![a][<< "stopHook", o, i >>] = @ - 1,
                                         ![a][<< "delay", o, i >>] = @ + 1 ]
    /\ agStatus' = [ agStatus EXCEPT ![a] = IF ok THEN "stopped" ELSE @ ]
    /\ UNCHANGED << registry, errHandlers, extStarting, extStarts, extStopping,
                    extStops, restarts >>
    /\ UNCHANGED notAgents

\* The delay of a recovery is over and it calls start().
RecoveryRestarts(a, o, i) ==
    /\ recovering[a][<< "delay", o, i >>] > 0
    /\ Total([ b \in SubAgents |-> restarts[b]["outside"] + restarts[b]["restart"] ])
          < MaxRestarts
    /\ restarts' = [ restarts EXCEPT ![a][o] = @ + 1 ]
    /\ IF agStatus[a] = "running"
         THEN /\ recovering' = [ recovering EXCEPT ![a][<< "delay", o, i >>] = @ - 1 ]
              /\ UNCHANGED agStatus
         ELSE /\ recovering' = [ recovering EXCEPT ![a][<< "delay", o, i >>] = @ - 1,
                                                   ![a][<< "startHook", o, i >>] = @ + 1 ]
              /\ agStatus' = [ agStatus EXCEPT ![a] = "running" ]
    /\ UNCHANGED << registry, errHandlers, extStarting, extStarts, extStopping, extStops >>
    /\ UNCHANGED notAgents

\* The initialize hook awaited by a recovery's start() settles.  On failure
\* start() sets 'error', emits agent:error (the handlers run synchronously,
\* beginning new recoveries) and rethrows; the recovery that called it is
\* left with its catch block to run.
RecoveryStartReturns(a, o, i, ok) ==
    /\ recovering[a][<< "startHook", o, i >>] > 0
    /\ IF ok
         THEN /\ recovering' = [ recovering EXCEPT ![a][<< "startHook", o, i >>] = @ - 1 ]
              /\ UNCHANGED agStatus
         ELSE /\ agStatus' = [ agStatus EXCEPT ![a] = "error" ]
              /\ recovering' = [ recovering EXCEPT ![a] =
                                   WithNewRecoveries(
                                     [ @ EXCEPT ![ << "startHook", o, i >> ] = @ - 1,
                                                ![ << "catch", o, i >> ] = @ + 1 ],
                                     a, "restart") ]
    /\ UNCHANGED << registry, errHandlers, extStarting, extStarts, extStopping,
                    extStops, restarts >>
    /\ UNCHANGED notAgents

\* The catch block of a recovery whose start() rejected: info.attached =
\* false, on the record the recovery holds.
RecoveryCatches(a, o, i) ==
    /\ recovering[a][<< "catch", o, i >>] > 0
    /\ recovering' = [ recovering EXCEPT ![a][<< "catch", o, i >>] = @ - 1 ]
    /\ registry' = IF i = "current" THEN [ registry EXCEPT ![a] = "detached" ] ELSE registry
    /\ UNCHANGED << agStatus, errHandlers, extStarting, extStarts, extStopping,
                    extStops, restarts >>
    /\ UNCHANGED notAgents

AgentsNext ==
    \/ \E a \in SubAgents : RegisterAgent(a)
    \/ \E a \in SubAgents : RegistryUnregisterAgent(a)
    \/ \E a \in SubAgents : RegistryAttachAgent(a)
    \/ \E a \in SubAgents : RegistryDetachAgent(a)
    \/ SubscribeAgentError
    \/ \E a \in SubAgents : StartAgent(a)
    \/ \E a \in SubAgents, ok \in BOOLEAN : InitializeReturns(a, ok)
    \/ \E a \in SubAgents : StopAgent(a)
    \/ \E a \in SubAgents, ok \in BOOLEAN : StopAgentReturns(a, ok)
    \/ \E a \in SubAgents, o \in Origins, i \in Infos, ok \in BOOLEAN :
          RecoveryStopReturns(a, o, i, ok)
    \/ \E a \in SubAgents, o \in Origins, i \in Infos : RecoveryRestarts(a, o, i)
    \/ \E a \in SubAgents, o \in Origins, i \in Infos, ok \in BOOLEAN :
          RecoveryStartReturns(a, o, i, ok)
    \/ \E a \in SubAgents, o \in Origins, i \in Infos : RecoveryCatches(a, o, i)

\* ========================================================================
\* PART 5.  The lifecycle calls of an agent: start() and stop()
\* ========================================================================
\* start() and stop() are called by anyone holding the agent (the sweeps and
\* the recovery of the Supervisor, index.ts), at any time, also while an
\* earlier call is awaiting its hook.
LcAgents == { "P" }

\* How a hook settles: it returns, or throws an error with a message.
HookFailures == { "E1", "E2" }
HookResults == { "ok" } \cup HookFailures

CallIdx == 1 .. Len(calls)
CallsOf(op, a) == { k \in CallIdx : calls[k].op = op /\ calls[k].agent = a }
NumCalls(op) == Cardinality({ k \in CallIdx : calls[k].op = op })

\* The number of times the initialize / shutdown hook of a was invoked.
HookInvocations(op, a) == Cardinality({ k \in CallsOf(op, a) : calls[k].state # "noop" })

\* The events the agent hands to emitEvent.
StartedEvent(a) == [ type |-> "agent:started", agentId |-> a, error |-> None ]
StoppedEvent(a) == [ type |-> "agent:stopped", agentId |-> a, error |-> None ]
ErrorEvent(a, msg) == [ type |-> "agent:error", agentId |-> a, error |-> msg ]

LifecycleInit ==
    /\ status = [ a \in LcAgents |-> "idle" ]
    /\ calls = << >>
    /\ emitted = << >>

\* A start() that is a no-op only when no earlier start() is still awaiting.
AlreadyRunningAndStarted(a) ==
    /\ status[a] = "running"
    /\ \A k \in CallsOf("start", a) : calls[k].state # "awaiting"

\* if (this.status === 'running') { warn; return; }
AlreadyRunning(a) == status[a] = "running"

\* start() up to its await of the initialize hook.
Start(a) ==
    /\ NumCalls("start") < MaxStartCalls
    /\ IF AlreadyRunning(a)
         THEN /\ calls' = Append(calls, [ op |-> "start", agent |-> a,
                                          state |-> "noop", hook |-> None ])
              /\ UNCHANGED status
         ELSE /\ calls' = Append(calls, [ op |-> "start", agent |-> a,
                                          state |-> "awaiting", hook |-> None ])
              /\ status' = [ status EXCEPT ![a] = "running" ]
    /\ UNCHANGED emitted
    /\ UNCHANGED notLifecycle

\* A start() that logs the failure of the hook and returns.
StartSettledSwallows(a, res) ==
    IF res = "ok"
      THEN [ state |-> "returned", status |-> status[a], event |-> StartedEvent(a) ]
      ELSE [ state |-> "returned", status |-> "error", event |-> ErrorEvent(a, res) ]

\* start() after the await: the rest of the try block, or the catch block
\* (status = 'error', emit agent:error with the message, throw error).
StartSettled(a, res) ==
    IF res = "ok"
      THEN [ state |-> "returned", status |-> status[a], event |-> StartedEvent(a) ]
      ELSE [ state |-> "threw", status |-> "error", event |-> ErrorEvent(a, res) ]

\* The initialize hook awaited by call k settles with res.
InitializeSettles(k, res) ==
    LET a == calls[k].agent
        after == StartSettled(a, res)
    IN  /\ calls[k].op = "start"
        /\ calls[k].state = "awaiting"
        /\ calls' = [ calls EXCEPT ![k].state = after.state, ![k].hook = res ]
        /\ status' = [ status EXCEPT ![a] = after.status ]
        /\ emitted' = Append(emitted, after.event)
        /\ UNCHANGED notLifecycle

\* if (this.status === 'stopped') { warn; return; }
AlreadyStopped(a) == status[a] = "stopped"

\* stop() up to its await of the shutdown hook.
Stop(a) ==
    /\ NumCalls("stop") < MaxStopCalls
    /\ calls' = Append(calls, [ op |-> "stop", agent |-> a,
                                state |-> IF AlreadyStopped(a) THEN "noop" ELSE "awaiting",
                                hook |-> None ])
    /\ UNCHANGED << status, emitted >>
    /\ UNCHANGED notLifecycle

\* A stop() that rethrows the failure of the hook.
StopSettledRethrows(a, res) ==
    IF res = "ok"
      THEN [ state |-> "returned", status |-> "stopped", events |-> << StoppedEvent(a) >> ]
      ELSE [ state |-> "threw", status |-> status[a], events |-> << >> ]

\* stop() after the await: the rest of the try block (status = 'stopped',
\* emit agent:stopped), or the catch block, which only logs.
StopSettled(a, res) ==
    IF res = "ok"
      THEN [ state |-> "returned", status |-> "stopped", events |-> << StoppedEvent(a) >> ]
      ELSE [ state |-> "returned", status |-> status[a], events |-> << >> ]

\* The shutdown hook awaited by call k settles with res.
ShutdownSettles(k, res) ==
    LET a == calls[k].agent
        after == StopSettled(a, res)
    IN  /\ calls[k].op = "stop"
        /\ calls[k].state = "awaiting"
        /\ calls' = [ calls EXCEPT ![k].state = after.state, ![k].hook = res ]
        /\ status' = [ status EXCEPT ![a] = after.status ]
        /\ emitted' = emitted \o after.events
        /\ UNCHANGED notLifecycle

LifecycleNext ==
    \/ \E a \in LcAgents : Start(a)
    \/ \E k \in CallIdx, res \in HookResults : InitializeSettles(k, res)
    \/ \E a \in LcAgents : Stop(a)
    \/ \E k \in CallIdx, res \in HookResults : ShutdownSettles(k, res)

\* ========================================================================
\* PART 6.  The registration table and the start and stop sweeps
\* ========================================================================
SwAgents == { "X", "Y" }
Priorities == { 1, 10 }
Min(S) == CHOOSE n \in S : \A m \in S : n <= m

\* Array.prototype.sort is stable: elements are ordered by their key, and
\* elements with equal keys keep their order.  key[i] is the key of seq[i].
StableSort(seq, key) ==
    LET rank(i) == 1 + Cardinality({ j \in DOMAIN seq :
                                       key[j] < key[i] \/ (key[j] = key[i] /\ j < i) })
    IN  [ p \in DOMAIN seq |-> seq[CHOOSE i \in DOMAIN seq : rank(i) = p] ]

\* A start order by ascending priority.
StartOrderAscending(table) ==
    LET att == SelectSeq(table, LAMBDA info : info.attached)
        sorted == StableSort(att, [ i \in DOMAIN att |-> att[i].priority ])
    IN  [ i \in DOMAIN sorted |-> sorted[i].agent ]

\* startAllAgents: values().filter(a => a.attached)
\*                         .sort((a, b) => b.priority - a.priority)
StartOrder(table) ==
    LET att == SelectSeq(table, LAMBDA info : info.attached)
        sorted == StableSort(att, [ i \in DOMAIN att |-> 0 - att[i].priority ])
    IN  [ i \in DOMAIN sorted |-> sorted[i].agent ]

\* A stop order that leaves the detached agents out.
StopOrderAttachedOnly(table) ==
    LET att == SelectSeq(table, LAMBDA info : info.attached)
        sorted == StableSort(att, [ i \in DOMAIN att |-> att[i].priority ])
    IN  [ i \in DOMAIN sorted |-> sorted[i].agent ]

\* shutdown: values().sort((a, b) => a.priority - b.priority)
StopOrder(table) ==
    LET sorted == StableSort(table, [ i \in DOMAIN table |-> table[i].priority ])
    IN  [ i \in DOMAIN sorted |-> sorted[i].agent ]

Registered(table) == { table[i].agent : i \in DOMAIN table }
InfoOf(table, a) == table[CHOOSE i \in DOMAIN table : table[i].agent = a]
\* A sweep: the list it goes through, the position of the agent whose
\* start() or stop() it awaits, the results of the calls before, and what the
\* awaited call stands on: its hook ("hook"), or it has returned or thrown
\* and the loop has not resumed yet ("noop": it returned at its early
\* return, "ok", "failed").
IdleSweep == [ state |-> "idle", agents |-> << >>, pos |-> 0, results |-> << >>,
              waiting |-> None ]

\* A handleAgentError call: where it stands (it awaits the shutdown hook of
\* its stop(), its delay, the initialize hook of its start(), or its start()
\* has thrown and its catch block has not run), and whether the record it
\* read when it began (const info = this.subAgents.get(agentId)) is the
\* record of the Map ("current") or one replaced or deleted since ("stale").
SwPhases == { "stopHook", "delay", "startHook", "catch" }
Call(a, ph, i) == [ agent |-> a, phase |-> ph, info |-> i ]

\* No start() or stop() from outside is under way.
NoDirect == [ agent |-> None, op |-> None ]

SweepsInit ==
    /\ subAgents = << >>
    /\ agentStatus = [ a \in SwAgents |-> "idle" ]
    /\ supervisorUp = FALSE
    /\ startSweep = IdleSweep
    /\ stopSweep = IdleSweep
    /\ recovery = EmptyBag
    /\ direct = NoDirect
    /\ errorEvents = [ a \in SwAgents |-> 0 ]
    /\ outsideCalls = 0

\* The handleAgentError calls of bag after the records of the agents in S
\* were replaced or deleted in the Map: each holds the record it read.
Staled(bag, S) ==
    LET n(r) == IF r.agent \notin S THEN CopiesIn(r, bag)
                ELSE IF r.info = "current" THEN 0
                ELSE CopiesIn(r, bag) + CopiesIn([ r EXCEPT !.info = "current" ], bag)
    IN  [ r \in { q \in [ agent : SwAgents, phase : SwPhases, info : Infos ] : n(q) > 0 }
            |-> n(r) ]

\* A call from outside is counted; MaxOutsideCalls of them are followed.
Called ==
    /\ outsideCalls < MaxOutsideCalls
    /\ outsideCalls' = outsideCalls + 1

\* Map.set(agent.id, record): a new key goes to the end, the value of a key
\* that is there is replaced where it stands.
MapSet(table, rec) ==
    IF rec.agent \in Registered(table)
      THEN [ i \in DOMAIN table |-> IF table[i].agent = rec.agent THEN rec ELSE table[i] ]
      ELSE Append(table, rec)

\* registerAgent(agent, priority): a fresh record, attached, whether the id
\* is registered or not.
RegisterAgentWithPriority(a, p) ==
    /\ subAgents' = MapSet(subAgents, [ agent |-> a, attached |-> TRUE, priority |-> p ])
    /\ recovery' = Staled(recovery, { a })
    /\ UNCHANGED << agentStatus, supervisorUp, startSweep, stopSweep,
                    direct, errorEvents >>
    /\ Called
    /\ UNCHANGED notSweeps

\* unregisterAgent(agentId): the record is deleted, if there is one.
UnregisterAgent(a) ==
    /\ subAgents' = SelectSeq(subAgents, LAMBDA info : info.agent # a)
    /\ recovery' = Staled(recovery, { a })
    /\ UNCHANGED << agentStatus, supervisorUp, startSweep, stopSweep,
                    direct, errorEvents >>
    /\ Called
    /\ UNCHANGED notSweeps

\* A table in which the flag of every record is set.
WithAttachedAll(table, a, flag) ==
    [ i \in DOMAIN table |-> [ table[i] EXCEPT !.attached = flag ] ]

\* The table with the attached flag of a's record set to flag.
WithAttached(table, a, flag) ==
    [ i \in DOMAIN table |->
        IF table[i].agent = a THEN [ table[i] EXCEPT !.attached = flag ] ELSE table[i] ]

\* attachAgent / detachAgent: set the flag of the record, if there is one.
AttachAgent(a) ==
    /\ IF a \in Registered(subAgents)
         THEN subAgents' = WithAttached(subAgents, a, TRUE)
         ELSE UNCHANGED subAgents
    /\ UNCHANGED << agentStatus, supervisorUp, startSweep, stopSweep,
                    recovery, direct, errorEvents >>
    /\ Called
    /\ UNCHANGED notSweeps

DetachAgent(a) ==
    /\ IF a \in Registered(subAgents)
         THEN subAgents' = WithAttached(subAgents, a, FALSE)
         ELSE UNCHANGED subAgents
    /\ UNCHANGED << agentStatus, supervisorUp, startSweep, stopSweep,
                    recovery, direct, errorEvents >>
    /\ Called
    /\ UNCHANGED notSweeps

\* start() of the Supervisor: initialize subscribes the handler of
\* agent:error.  (One subscription is followed; the handler is never
\* removed, also not by stop().)
SupervisorStarts ==
    /\ ~supervisorUp
    /\ supervisorUp' = TRUE
    /\ UNCHANGED << subAgents, agentStatus, startSweep, stopSweep,
                    recovery, direct, errorEvents >>
    /\ Called
    /\ UNCHANGED notSweeps

\* An agent:error event for agent a: the Supervisor's handler, if subscribed,
\* calls handleAgentError, which for a registered agent runs up to the await
\* of the shutdown hook in stop() (the status is 'error', so stop() does not
\* return early).
BeginsRecovery(a, table) == supervisorUp /\ a \in Registered(table)

\* The catch branch of start() after the initialize hook of agent a threw:
\* status 'error', an agent:error event, and the recoveries it begins.
StatusAfterStart(st, a, ok) == IF ok THEN st ELSE [ st EXCEPT ![a] = "error" ]
EventsAfterStart(ev, a, ok) == IF ok THEN ev ELSE [ ev EXCEPT ![a] = @ + 1 ]
RecoveryAfterStart(bag, a, ok) ==
    IF ~ok /\ BeginsRecovery(a, subAgents)
      THEN bag (+) SetToBag({ Call(a, "stopHook", "current") })
      ELSE bag

\* The initialize hooks fail MaxFailures times at most.
MayFail == errorEvents["X"] + errorEvents["Y"] < MaxFailures

\* The loop of startAllAgents at position p, up to its await: start() of
\* the agent at p returns at once when the agent is running, else it sets
\* the status and awaits the initialize hook; either way the loop awaits the
\* call.  Past the end of the list the sweep is done.
StartFrom(list, results, p, st) ==
    IF p > Len(list)
      THEN [ sweep |-> [ state |-> "done", agents |-> list, pos |-> p,
                         results |-> results, waiting |-> None ],
             status |-> st ]
      ELSE IF st[list[p]] = "running"
             THEN [ sweep |-> [ state |-> "running", agents |-> list, pos |-> p,
                                results |-> results, waiting |-> "noop" ],
                    status |-> st ]
             ELSE [ sweep |-> [ state |-> "running", agents |-> list, pos |-> p,
                                results |-> results, waiting |-> "hook" ],
                    status |-> [ st EXCEPT ![list[p]] = "running" ] ]

\* startAllAgents up to its first await.  (One call at a time is followed.)
StartAllAgents ==
    LET go == StartFrom(StartOrder(subAgents), << >>, 1, agentStatus)
    IN  /\ startSweep.state # "running"
        /\ startSweep' = go.sweep
        /\ agentStatus' = go.status
        /\ UNCHANGED << subAgents, supervisorUp, stopSweep, recovery, direct,
                        errorEvents >>
        /\ Called
        /\ UNCHANGED notSweeps

\* The initialize hook of the agent the start sweep waits for settles.  On
\* failure start() sets 'error', emits agent:error and throws.  The loop of
\* the sweep resumes later.
SweepInitializeReturns(ok) ==
    LET a == startSweep.agents[startSweep.pos]
    IN  /\ startSweep.state = "running"
        /\ startSweep.waiting = "hook"
        /\ ok \/ MayFail
        /\ startSweep' = [ startSweep EXCEPT !.waiting = IF ok THEN "ok" ELSE "failed" ]
        /\ agentStatus' = StatusAfterStart(agentStatus, a, ok)
        /\ errorEvents' = EventsAfterStart(errorEvents, a, ok)
        /\ recovery' = RecoveryAfterStart(recovery, a, ok)
        /\ UNCHANGED << subAgents, supervisorUp, stopSweep, direct >>
        /\ UNCHANGED outsideCalls
        /\ UNCHANGED notSweeps

\* The await of startAllAgents resumes with the start() that returned or
\* threw (the catch logs it), and the loop goes on with the next agent.
SweepStartResumes ==
    LET go == StartFrom(startSweep.agents,
                        Append(startSweep.results, startSweep.waiting),
                        startSweep.pos + 1, agentStatus)
    IN  /\ startSweep.state = "running"
        /\ startSweep.waiting \in { "noop", "ok", "failed" }
        /\ startSweep' = go.sweep
        /\ agentStatus' = go.status
        /\ UNCHANGED << subAgents, supervisorUp, stopSweep, recovery, direct,
                        errorEvents >>
        /\ UNCHANGED outsideCalls
        /\ UNCHANGED notSweeps

\* The bag with one call moved from r to q.
Moved(bag, r, q) == (bag (-) SetToBag({ r })) (+) SetToBag({ q })

\* handleAgentError: the shutdown hook awaited by its stop() settles: stop()
\* sets 'stopped' unless the hook threw, and the delay begins.
RecoveryStopSettles(a, i, ok) ==
    /\ BagIn(Call(a, "stopHook", i), recovery)
    /\ recovery' = Moved(recovery, Call(a, "stopHook", i), Call(a, "delay", i))
    /\ agentStatus' = [ agentStatus EXCEPT ![a] = IF ok THEN "stopped" ELSE @ ]
    /\ UNCHANGED << subAgents, supervisorUp, startSweep, stopSweep, direct,
                    errorEvents >>
    /\ UNCHANGED outsideCalls
    /\ UNCHANGED notSweeps

\* handleAgentError: the delay is over, start() is called; it returns at
\* once for an agent that is running, and the recovery is over.
RecoveryStarts(a, i) ==
    /\ BagIn(Call(a, "delay", i), recovery)
    /\ IF agentStatus[a] = "running"
         THEN /\ recovery' = recovery (-) SetToBag({ Call(a, "delay", i) })
              /\ UNCHANGED agentStatus
         ELSE /\ recovery' = Moved(recovery, Call(a, "delay", i), Call(a, "startHook", i))
              /\ agentStatus' = [ agentStatus EXCEPT ![a] = "running" ]
    /\ UNCHANGED << subAgents, supervisorUp, startSweep, stopSweep, direct,
                    errorEvents >>
    /\ UNCHANGED outsideCalls
    /\ UNCHANGED notSweeps

\* handleAgentError: the initialize hook awaited by its start() settles; on
\* failure start() sets 'error', emits another agent:error, whose handler
\* begins another handleAgentError, and throws: the recovery is left with
\* its catch block to run.
RecoveryStartSettles(a, i, ok) ==
    /\ BagIn(Call(a, "startHook", i), recovery)
    /\ ok \/ MayFail
    /\ agentStatus' = StatusAfterStart(agentStatus, a, ok)
    /\ errorEvents' = EventsAfterStart(errorEvents, a, ok)
    /\ recovery' = IF ok
                     THEN recovery (-) SetToBag({ Call(a, "startHook", i) })
                     ELSE RecoveryAfterStart(
                            Moved(recovery, Call(a, "startHook", i), Call(a, "catch", i)),
                            a, ok)
    /\ UNCHANGED << subAgents, supervisorUp, startSweep, stopSweep, direct >>
    /\ UNCHANGED outsideCalls
    /\ UNCHANGED notSweeps

\* handleAgentError: the catch block, info.attached = false on the record
\* the recovery holds.
SweepRecoveryCatches(a, i) ==
    /\ BagIn(Call(a, "catch", i), recovery)
    /\ recovery' = recovery (-) SetToBag({ Call(a, "catch", i) })
    /\ subAgents' = IF i = "current" THEN WithAttached(subAgents, a, FALSE) ELSE subAgents
    /\ UNCHANGED << agentStatus, supervisorUp, startSweep, stopSweep, direct,
                    errorEvents >>
    /\ UNCHANGED outsideCalls
    /\ UNCHANGED notSweeps

\* start() called on sub-agent a from outside the Supervisor, up to the
\* await of its initialize hook.  (A call on a running agent returns at
\* once and changes nothing; one call from outside at a time is followed.)
SubAgentStart(a) ==
    /\ direct = NoDirect
    /\ agentStatus[a] # "running"
    /\ agentStatus' = [ agentStatus EXCEPT ![a] = "running" ]
    /\ direct' = [ agent |-> a, op |-> "start" ]
    /\ UNCHANGED << subAgents, supervisorUp, startSweep, stopSweep, recovery,
                    errorEvents >>
    /\ Called
    /\ UNCHANGED notSweeps

\* The initialize hook of that start() settles.
SubAgentInitializeReturns(ok) ==
    /\ direct.op = "start"
    /\ ok \/ MayFail
    /\ direct' = NoDirect
    /\ agentStatus' = StatusAfterStart(agentStatus, direct.agent, ok)
    /\ errorEvents' = EventsAfterStart(errorEvents, direct.agent, ok)
    /\ recovery' = RecoveryAfterStart(recovery, direct.agent, ok)
    /\ UNCHANGED << subAgents, supervisorUp, startSweep, stopSweep >>
    /\ UNCHANGED outsideCalls
    /\ UNCHANGED notSweeps

\* stop() called on sub-agent a from outside the Supervisor, up to the await
\* of its shutdown hook.  (A call on a stopped agent returns at once and
\* changes nothing.)
SubAgentStop(a) ==
    /\ direct = NoDirect
    /\ agentStatus[a] # "stopped"
    /\ direct' = [ agent |-> a, op |-> "stop" ]
    /\ UNCHANGED << subAgents, agentStatus, supervisorUp, startSweep, stopSweep,
                    recovery, errorEvents >>
    /\ Called
    /\ UNCHANGED notSweeps

\* The shutdown hook of that stop() settles.
SubAgentShutdownReturns(ok) ==
    /\ direct.op = "stop"
    /\ direct' = NoDirect
    /\ agentStatus' = IF ok THEN [ agentStatus EXCEPT ![direct.agent] = "stopped" ]
                            ELSE agentStatus
    /\ UNCHANGED << subAgents, supervisorUp, startSweep, stopSweep, recovery,
                    errorEvents >>
    /\ UNCHANGED outsideCalls
    /\ UNCHANGED notSweeps

\* The loop of shutdown at position p, up to its await: stop() of the agent
\* at p returns at once when the agent is stopped, else it awaits the
\* shutdown hook; either way the loop awaits the call.  Past the end of the
\* list shutdown clears the table and returns, and nothing is left of the
\* call.
ShutdownDone == [ state |-> "done", agents |-> << >>, pos |-> 0, results |-> << >>,
                  waiting |-> None ]
StopFrom(list, results, p, st) ==
    IF p > Len(list)
      THEN ShutdownDone
      ELSE [ state |-> "running", agents |-> list, pos |-> p, results |-> results,
             waiting |-> IF st[list[p]] = "stopped" THEN "noop" ELSE "hook" ]

\* The table after the loop of shutdown: this.subAgents.clear(), which
\* leaves the recoveries under way with records that are no longer in the Map.
TableAfter(sweep, table) == IF sweep.state = "done" THEN << >> ELSE table
RecoveryAfter(sweep, bag) ==
    IF sweep.state = "done" THEN Staled(bag, SwAgents) ELSE bag

\* shutdown up to its first await (or to its end).  (One call at a time is
\* followed.)
Shutdown ==
    LET go == StopFrom(StopOrder(subAgents), << >>, 1, agentStatus)
    IN  /\ stopSweep.state # "running"
        /\ stopSweep' = go
        /\ subAgents' = TableAfter(go, subAgents)
        /\ recovery' = RecoveryAfter(go, recovery)
        /\ UNCHANGED << agentStatus, supervisorUp, startSweep, direct, errorEvents >>
        /\ Called
        /\ UNCHANGED notSweeps

\* The shutdown hook of the agent the stop sweep waits for settles: stop()
\* sets 'stopped' unless the hook threw, and returns.  The loop of the sweep
\* resumes later.
SweepShutdownReturns(ok) ==
    LET a == stopSweep.agents[stopSweep.pos]
    IN  /\ stopSweep.state = "running"
        /\ stopSweep.waiting = "hook"
        /\ stopSweep' = [ stopSweep EXCEPT !.waiting = IF ok THEN "ok" ELSE "failed" ]
        /\ agentStatus' = IF ok THEN [ agentStatus EXCEPT ![a] = "stopped" ] ELSE agentStatus
        /\ UNCHANGED << subAgents, supervisorUp, startSweep, recovery, direct,
                        errorEvents >>
        /\ UNCHANGED outsideCalls
        /\ UNCHANGED notSweeps

\* The await of shutdown resumes with the stop() that returned, and the loop
\* goes on with the next agent, or ends and clears the table.
SweepStopResumes ==
    LET go == StopFrom(stopSweep.agents,
                       Append(stopSweep.results, stopSweep.waiting),
                       stopSweep.pos + 1, agentStatus)
    IN  /\ stopSweep.state = "running"
        /\ stopSweep.waiting \in { "noop", "ok", "failed" }
        /\ stopSweep' = go
        /\ subAgents' = TableAfter(go, subAgents)
        /\ recovery' = RecoveryAfter(go, recovery)
        /\ UNCHANGED << agentStatus, supervisorUp, startSweep, direct, errorEvents >>
        /\ UNCHANGED outsideCalls
        /\ UNCHANGED notSweeps

SweepsNext ==
    \/ \E a \in SwAgents, p \in Priorities : RegisterAgentWithPriority(a, p)
    \/ \E a \in SwAgents : UnregisterAgent(a)
    \/ \E a \in SwAgents : AttachAgent(a)
    \/ \E a \in SwAgents : DetachAgent(a)
    \/ SupervisorStarts
    \/ StartAllAgents
    \/ \E ok \in BOOLEAN : SweepInitializeReturns(ok)
    \/ SweepStartResumes
    \/ \E a \in SwAgents, i \in Infos, ok \in BOOLEAN : RecoveryStopSettles(a, i, ok)
    \/ \E a \in SwAgents, i \in Infos : RecoveryStarts(a, i)
    \/ \E a \in SwAgents, i \in Infos, ok \in BOOLEAN : RecoveryStartSettles(a, i, ok)
    \/ \E a \in SwAgents, i \in Infos : SweepRecoveryCatches(a, i)
    \/ \E a \in SwAgents : SubAgentStart(a)
    \/ \E ok \in BOOLEAN : SubAgentInitializeReturns(ok)
    \/ \E a \in SwAgents : SubAgentStop(a)
    \/ \E ok \in BOOLEAN : SubAgentShutdownReturns(ok)
    \/ Shutdown
    \/ \E ok \in BOOLEAN : SweepShutdownReturns(ok)
    \/ SweepStopResumes

\* ========================================================================
\* PART 7.  Routing of a task by the Supervisor (processTask, routeTask)
\* ========================================================================
\* The name each agent was constructed with.
AgentNameOf(a) == CASE a = "X" -> "ToolsManagerAgent"
                    [] a = "Y" -> "WorkflowPlannerAgent"

\* routeTask: typeToAgent[task.type], None for a type without an entry (and
\* for a task without a type).
TypeToAgent(type) ==
    CASE type = "model" -> "ModelRouterAgent"
      [] type = "tool" -> "ToolsManagerAgent"
      [] type = "function" -> "FunctionsAgent"
      [] type = "memory" -> "MemoryAgent"
      [] type = "knowledge" -> "KnowledgeAgent"
      [] type = "workflow" -> "WorkflowPlannerAgent"
      [] type = "todo" -> "TodoManagerAgent"
      [] type = "chat" -> "ChatSessionManagerAgent"
      [] type = "observe" -> "ObservabilityAgent"
      [] type = "personalize" -> "PersonalizationAgent"
      [] type = "security" -> "SecurityAgent"
      [] type = "integrate" -> "IntegrationAgent"
      [] OTHER -> None

\* The tasks given to processTask: agentId is None (absent), the id of one
\* of the agents, or an id that was never registered; type is None (absent),
\* a type of the table, or another string.  None also stands for the other
\* falsy values ("" for either field), which the code treats alike.
TaskAgentIds == { None } \cup SwAgents \cup { "ghost" }
TaskTypes == { None, "tool", "workflow", "memory", "other" }
Tasks == [ agentId : TaskAgentIds, type : TaskTypes ]

RoutingInit ==
    routed = [ agentId |-> None, type |-> None, outcome |-> "none", target |-> None ]

\* An explicit target that only has to be registered.
ExplicitTargetRegistered(table, id) == id \in Registered(table)

\* processTask: const agentInfo = this.subAgents.get(taskObj.agentId);
\*              if (agentInfo?.attached)
ExplicitTargetOk(table, id) == id \in Registered(table) /\ InfoOf(table, id).attached

\* A category match that does not look at the attached flag.
CategoryMatchByName(info, name) == AgentNameOf(info.agent) = name

\* routeTask: if (info.agent.name === agentName && info.attached)
CategoryMatch(info, name) == AgentNameOf(info.agent) = name /\ info.attached

\* routeTask: if (info.attached && info.agent.getStatus() === 'running')
FallbackEligible(info, st) == info.attached /\ st[info.agent] = "running"

\* routeTask: the record of the first agent of the matched name that is
\* attached, else the first attached agent that is running, else None.
RouteTask(type, table, st) ==
    LET name == IF type = None THEN None ELSE TypeToAgent(type)
        byName == { i \in DOMAIN table : name # None /\ CategoryMatch(table[i], name) }
        fallback == { i \in DOMAIN table : FallbackEligible(table[i], st) }
    IN  IF byName # {} THEN table[Min(byName)].agent
        ELSE IF fallback # {} THEN table[Min(fallback)].agent
        ELSE None

\* processTask: the outcome, and the agent the request is sent to (if any).
Routing(task, table, st) ==
    IF task.agentId # None
      THEN IF ExplicitTargetOk(table, task.agentId)
             THEN [ outcome |-> "forwarded", target |-> task.agentId ]
             ELSE [ outcome |-> "not found or not attached", target |-> None ]
      ELSE LET a == RouteTask(task.type, table, st)
           IN  IF a # None
                 THEN [ outcome |-> "forwarded", target |-> a ]
                 ELSE [ outcome |-> "No suitable agent found", target |-> None ]

ProcessTask(task) ==
    LET r == Routing(task, subAgents, agentStatus)
    IN  /\ routed' = [ agentId |-> task.agentId, type |-> task.type,
                       outcome |-> r.outcome, target |-> r.target ]
        /\ UNCHANGED notRouting

\* start() / stop() of an agent, taken with hooks that succeed at once.
AgentStatusChanges(a, st) ==
    /\ agentStatus[a] # st
    /\ agentStatus' = [ agentStatus EXCEPT ![a] = st ]
    /\ UNCHANGED << subAgents, supervisorUp, startSweep, stopSweep,
                    recovery, direct, errorEvents >>
    /\ Called
    /\ UNCHANGED notSweeps

RoutingNext ==
    \/ \E a \in SwAgents, p \in Priorities : RegisterAgentWithPriority(a, p)
    \/ \E a \in SwAgents : UnregisterAgent(a)
    \/ \E a \in SwAgents : AttachAgent(a)
    \/ \E a \in SwAgents : DetachAgent(a)
    \/ \E a \in SwAgents, st \in { "running", "stopped" } : AgentStatusChanges(a, st)
    \/ \E task \in Tasks : ProcessTask(task)

\* ========================================================================
\* PART 8.  The dependency scheduler (TodoManagerAgent.autoScheduleTasks)
\* ========================================================================
PlannerTaskIds == { "a", "b", "c" }
\* 'cancelled' is left out: the scheduler treats it as it treats 'in_progress'.
TodoStatuses == { "pending", "in_progress", "completed" }

\* A planner task, as far as the scheduler reads it.  A dependency may name
\* an id that is not in the Map.
PlannerTasks ==
    [ id : PlannerTaskIds, dependencies : SUBSET PlannerTaskIds, status : TodoStatuses ]

NotCalled == [ called |-> FALSE, order |-> << >> ]

\* No planner task yet: tasks = new Map().
PlannerIdle == tasks = << >> /\ scheduled = NotCalled /\ plannerWrites = 0

IdsOf(map) == { map[i].id : i \in DOMAIN map }
TaskOf(map, id) == map[CHOOSE i \in DOMAIN map : map[i].id = id]

\* The ids of the tasks with status 'pending', in the order of the Map.
PendingOf(map) ==
    LET ids == [ i \in DOMAIN map |-> map[i].id ]
    IN  SelectSeq(ids, LAMBDA id : TaskOf(map, id).status = "pending")

\* A dependency test that lets every dependency pass.
DepCompleteAlways(map, pending, depId) == TRUE

\* const dep = this.tasks.get(depId);
\* return dep?.status === 'completed' || !pending.has(depId);
DepComplete(map, pending, depId) ==
    \/ depId \in IdsOf(map) /\ TaskOf(map, depId).status = "completed"
    \/ depId \notin Range(pending)

\* A test that passes only dependencies that are in the Map and completed.
DepsCompleteOnlyCompleted(map, pending, id) ==
    \A depId \in TaskOf(map, id).dependencies :
        depId \in IdsOf(map) /\ TaskOf(map, depId).status = "completed"

\* task.dependencies.every(depId => ...)
DepsComplete(map, pending, id) ==
    \A depId \in TaskOf(map, id).dependencies : DepComplete(map, pending, depId)

\* One pass of the for loop over the pending set: todo are the ids the
\* iteration has not reached yet.  A ready task is pushed and deleted from
\* the set at once, so the tasks after it in the same pass see it gone.
RECURSIVE ScanPass(_, _, _, _, _)
ScanPass(map, todo, pending, order, foundReady) ==
    IF todo = << >>
      THEN [ pending |-> pending, order |-> order, foundReady |-> foundReady ]
      ELSE LET taskId == Head(todo)
           IN  IF DepsComplete(map, pending, taskId)
                 THEN ScanPass(map, Tail(todo),
                               SelectSeq(pending, LAMBDA id : id # taskId),
                               Append(order, taskId), TRUE)
                 ELSE ScanPass(map, Tail(todo), pending, order, foundReady)

\* A loop that stops after its first pass.
StopsAfterPass(foundReady) == TRUE

\* if (!foundReady) break;
NoProgress(foundReady) == ~foundReady

\* while (pending.size > 0) { one pass; if (!foundReady) break; }
RECURSIVE ScheduleLoop(_, _, _)
ScheduleLoop(map, pending, order) ==
    IF Len(pending) = 0
      THEN order
      ELSE LET pass == ScanPass(map, pending, pending, order, FALSE)
           IN  IF NoProgress(pass.foundReady)
                 THEN pass.order
                 ELSE ScheduleLoop(map, pass.pending, pass.order)

\* autoScheduleTasks(): the ids of the returned tasks, in order.
AutoSchedule(map) == ScheduleLoop(map, PendingOf(map), << >>)

\* One more call that writes the planner tasks, while the bound allows it.
PlannerWrites ==
    /\ plannerWrites < MaxPlannerWrites
    /\ plannerWrites' = plannerWrites + 1

AutoScheduleTasks ==
    /\ scheduled' = [ called |-> TRUE, order |-> AutoSchedule(tasks) ]
    /\ UNCHANGED << tasks, plannerWrites >>
    /\ UNCHANGED notPlanner

\* this.tasks.set(task.id, task): the task of an id that is in the Map is
\* replaced where it stands, a new id goes to the end.
TaskSet(map, task) ==
    IF task.id \in IdsOf(map)
      THEN [ i \in DOMAIN map |-> IF map[i].id = task.id THEN task ELSE map[i] ]
      ELSE Append(map, task)

\* addPlannerTask(task), with the id, dependencies and status given.
AddPlannerTask(task) ==
    /\ tasks' = TaskSet(tasks, task)
    /\ UNCHANGED scheduled
    /\ PlannerWrites
    /\ UNCHANGED notPlanner

\* The updates of an updatePlannerTask call: { status } or { dependencies }.
PlannerUpdates ==
    { [ field |-> "status", status |-> st, dependencies |-> {} ] : st \in TodoStatuses }
    \cup { [ field |-> "dependencies", status |-> None, dependencies |-> deps ]
              : deps \in SUBSET PlannerTaskIds }

\* { ...existing, ...updates, id }
Updated(existing, updates) ==
    IF updates.field = "status"
      THEN [ existing EXCEPT !.status = updates.status ]
      ELSE [ existing EXCEPT !.dependencies = updates.dependencies ]

\* updatePlannerTask(id, updates): null and no change for an id that is not
\* in the Map.
UpdatePlannerTask(id, updates) ==
    /\ tasks' = IF id \in IdsOf(tasks)
                  THEN TaskSet(tasks, Updated(TaskOf(tasks, id), updates))
                  ELSE tasks
    /\ UNCHANGED scheduled
    /\ PlannerWrites
    /\ UNCHANGED notPlanner

\* The rows that SELECT * FROM planner_tasks can return: what the database
\* file holds (id is the primary key), no row when the table is empty.
PlannerRows ==
    UNION { { rows \in [ 1 .. n -> PlannerTasks ] :
                \A i, j \in 1 .. n : rows[i].id = rows[j].id => i = j }
            : n \in 0 .. MaxRows }

\* for (const row of taskRows) this.tasks.set(row.id, this.rowToTask(row))
RECURSIVE SetRows(_, _)
SetRows(map, rows) ==
    IF rows = << >> THEN map ELSE SetRows(TaskSet(map, Head(rows)), Tail(rows))

\* loadTodos, which initialize() calls once the database is open (without
\* the database nothing is loaded, as with no row).
LoadTodos(rows) ==
    /\ tasks' = SetRows(tasks, rows)
    /\ UNCHANGED scheduled
    /\ PlannerWrites
    /\ UNCHANGED notPlanner

PlannerNext ==
    \/ \E task \in PlannerTasks : AddPlannerTask(task)
    \/ \E id \in PlannerTaskIds, updates \in PlannerUpdates : UpdatePlannerTask(id, updates)
    \/ \E rows \in PlannerRows : LoadTodos(rows)
    \/ AutoScheduleTasks

\* ========================================================================
\* Specifications
\* ========================================================================
vars == << qvars, rvars, wvars, avars, lvars, svars, routed, pvars >>

OthersInit ==
    /\ QueueInit /\ ReqInit /\ WorkflowInit /\ AgentsInit /\ LifecycleInit /\ SweepsInit
    /\ RoutingInit

Init == OthersInit /\ PlannerIdle

SpecQueue == Init /\ [][QueueNext]_vars
\* An interval timer keeps firing, and the processTask awaited by the
\* callback settles: its request is answered or times out.
SpecQueueFair ==
    /\ SpecQueue
    /\ WF_vars(TimerTick)
    /\ WF_vars(\E t \in TaskIds, how \in { "resolved", "rejected" } : TaskSettles(t, how))
SpecReq == Init /\ [][RequestNext]_vars
SpecWorkflow == Init /\ [][WorkflowNext]_vars
SpecLoops == Init /\ [][LoopsNext]_vars
SpecRegistry == Init /\ [][RegistryNext]_vars
InitConcurrent ==
    /\ QueueInit /\ ReqInit /\ AgentsInit /\ LifecycleInit /\ SweepsInit
    /\ RoutingInit /\ PlannerIdle /\ ~supervisorUp
    /\ execs = << >> /\ awaiting = << >> /\ loops = << >> /\ runningExecutions = {}
    /\ visits = << >> /\ nested = << >> /\ resumes = << >> /\ resumedAt = << >>
    /\ workflows = [ w \in WorkflowIds \cup UnknownWorkflowIds |->
                       IF w \in WorkflowIds THEN Available ELSE Absent ]
    /\ lastExecute = [ workflowId |-> None, outcome |-> None, execution |-> 0 ]
    /\ startedEvents = 0 /\ contextOf = << >>
    /\ slots = MaxExecs + 1
    /\ shutdownAt = 0
SpecConcurrent == InitConcurrent /\ [][ConcurrentNext]_vars
SpecShutdown == Init /\ [][ShutdownNext]_vars
SpecAgents == Init /\ [][AgentsNext]_vars
SpecLifecycle == Init /\ [][LifecycleNext]_vars
SpecSweeps == Init /\ [][SweepsNext]_vars
SpecRouting == Init /\ [][RoutingNext]_vars
SpecScheduler == Init /\ [][PlannerNext]_vars
\* A timer that stays armed fires: setTimeout callbacks are always run.
SpecReqFair == SpecReq /\ \A r \in 1 .. MaxReqs : WF_vars(Timeout(r))

\* ========================================================================
\* Claims about the correlated requests
\* ========================================================================
Settled(r) == outcome[r] # "pending"

\* C4: every sendRequest call ends in one of exactly three ways: resolved
\* with the payload of the matching Response, rejected with the error of
\* the matching Error envelope, or rejected by the timeout; nothing else
\* settles it.
C4_ThreeOutcomes ==
    \A r \in ReqIds :
        /\ outcome[r] \in { "pending", "resolved", "rejected_error", "rejected_timeout" }
        /\ (outcome[r] = "resolved") = (value[r] = Payload(r))
        /\ outcome[r] \in { "resolved", "rejected_error" } => r \notin serving

\* C21: every Request delivered to an agent gets exactly one reply from it,
\* sent when processTask settles: to the request's sender, a Response if
\* processTask succeeded and an Error if it failed, carrying the request's
\* id; an Event, Response or Error envelope delivered to an agent gets none.
RepliesTo(id) == { v \in BagToSet(sent) : v.requestId = id }
NumReplies(id) == BagCardinality([ v \in RepliesTo(id) |-> sent[v] ])

C21_OneReplyPerRequest ==
    /\ [](\A r \in ReqIds :
            /\ r \in serving => deliveredTo[r] \in Subscribed /\ NumReplies(RequestId(r)) = 0
            /\ deliveredTo[r] \notin Subscribed => NumReplies(RequestId(r)) = 0
            /\ deliveredTo[r] \in Subscribed /\ r \notin serving =>
                  /\ NumReplies(RequestId(r)) = 1
                  /\ \A v \in RepliesTo(RequestId(r)) :
                        /\ v.to = reqs[r].from
                        /\ v.from = reqs[r].to
                        /\ v.type \in { "response", "error" })
    /\ [](\A v \in BagToSet(sent) : v.requestId \in { NoValue } \cup { RequestId(r) : r \in ReqIds })
    /\ [][ \A r \in ReqIds : \A res \in ProcessTaskResults :
             Reply(r, res) =>
               sent' = sent (+) SetToBag({ ReplyEnvelope(
                          IF res = "fulfilled" THEN "response" ELSE "error",
                          reqs[r].to, reqs[r].from, RequestId(r)) }) ]_vars

\* An agent has answered one request with a Response and another with an
\* Error, and an Event was delivered to that agent.
C21_Witness ==
    /\ \E i, j, k \in BagToSet(sent) :
          /\ i.type = "response"
          /\ j.type = "error"
          /\ k.type = "event"
          /\ k.to = i.from
          /\ j.from = i.from
    /\ BagCardinality(sent) = 3
    /\ serving = {}

\* C5: a request to an address nobody subscribed to never resolves, never
\* rejects with anything but the timeout, and is eventually rejected by
\* the timeout.
C5_GhostTimesOut ==
    /\ [](\A r \in ReqIds :
            reqs[r].to \notin Subscribed => outcome[r] \in { "pending", "rejected_timeout" })
    /\ \A r \in 1 .. MaxReqs :
          (r \in ReqIds /\ reqs[r].to \notin Subscribed)
              ~> (r \in ReqIds /\ outcome[r] = "rejected_timeout")

\* A request to "ghost" was rejected by its timeout although a reply to
\* another request of the same sender was delivered and resolved that one.
C5_Witness ==
    \E r, q \in ReqIds :
        /\ reqs[r].to = Name("ghost")
        /\ outcome[r] = "rejected_timeout"
        /\ q # r
        /\ reqs[q].from = reqs[r].from
        /\ outcome[q] = "resolved"

\* C6: once a sendRequest call has settled its handler is no longer
\* registered, so there are never more handlers than pending calls.
C6_ListenerDeregistered ==
    /\ \A r \in ReqIds : Settled(r) => r \notin listeners
    /\ Cardinality(listeners) <= Cardinality({ r \in ReqIds : ~Settled(r) })

\* C7: the request of a Tool (Function) step is delivered to the agent that
\* owns tool (function) execution, whose processTask then runs on it, and a
\* result the step records is that agent's response.
C7_StepRequestReachesOwner ==
    \A r \in ReqIds :
        /\ reqs[r].site = "toolStep" =>
              /\ deliveredTo[r] = Id("ToolsManagerAgent")
              /\ r \in serving \/ Settled(r)
        /\ reqs[r].site = "functionStep" =>
              /\ deliveredTo[r] = Id("FunctionsAgent")
              /\ r \in serving \/ Settled(r)

\* ========================================================================
\* Claims about workflow executions
\* ========================================================================
\* C2: within one execution at most one step is in flight at any time (a
\* step begins only after its predecessor's result is recorded).
C2_OneStepInFlight == \A e \in ExecIds : NumInFlight(e) <= 1

\* C8: every change of an execution's status is Running->Completed,
\* Running->Failed, Running->Paused or Paused->Running.
AllowedTransitions ==
    { << "running", "completed" >>, << "running", "failed" >>,
      << "running", "paused" >>, << "paused", "running" >> }

C8_StatusTransitions ==
    [][ \A e \in ExecIds :
          execs'[e].status # execs[e].status =>
              << execs[e].status, execs'[e].status >> \in AllowedTransitions ]_vars

\* C9: the run started by resumeExecution begins with the step recorded in
\* currentStep at the time of the resume.
C9_ResumeFromCurrentStep ==
    \A e \in ExecIds : resumedAt[e] # << >> => resumedAt[e][2] = resumedAt[e][1]

\* C10: cancelExecution on a Running execution sets the status to Failed and
\* appends the cancellation message without touching the step in flight, and
\* after it no step of the execution begins; on an unknown execution or one
\* that is not Running it returns false and changes nothing.
Cancelled(e) == "Cancelled by user" \in Range(execs[e].errors)

C10_Cancel ==
    [][ \A e \in CallIds :
          /\ CancelExecution(e) /\ Cancellable(e) =>
                /\ execs'[e].status = "failed"
                /\ execs'[e].errors = Append(execs[e].errors, "Cancelled by user")
                /\ awaiting' = awaiting
          /\ CancelExecution(e) /\ ~Cancellable(e) => UNCHANGED wvars
          /\ e \in ExecIds /\ Cancelled(e) =>
                /\ visits'[e] = visits[e]
                /\ execs'[e].status = "failed"
                /\ Cancelled(e)' ]_vars

\* An execution was cancelled while a step was in flight, that step has
\* returned since, and a step after it in the workflow was never begun.
C10_Witness ==
    \E e \in ExecIds :
        /\ Cancelled(e)
        /\ NumVisits(e) >= 2
        /\ NumInFlight(e) = 0
        /\ Len(execs[e].errors) >= 3
        /\ \E id \in DOMAIN visits[e] : visits[e][id] = 0

\* C11: once an execution's status is Completed or Failed its record never
\* changes again (status, results, errors, currentStep, endTime), also when
\* a step that was in flight at the cancellation returns or fails later.
C11_TerminalRecordImmutable ==
    [][ \A e \in ExecIds :
          execs[e].status \in { "completed", "failed" } => execs'[e] = execs[e] ]_vars

\* C12: fail forward.  When a step with a single unconditional next (that
\* names a step of the workflow) fails in a Running execution, exactly one
\* message is appended to errors, no result is recorded for the step and
\* the next step begins; and a run of
\* A->B->C in which only B fails, left alone (never paused or cancelled),
\* ends Completed with errors = <<B>> and results for A and C, none for B.
C12_FailForward ==
    /\ [][ \A e \in ExecIds : \A id \in DOMAIN awaiting[e] :
             \A out \in { "rejected_error", "rejected_timeout" } :
               LET st == StepOf(execs[e].workflowId, id)
               IN  StepReturns(e, id, out) /\ Len(st.next) = 1
                       /\ st.next[1] \in StepIds(execs[e].workflowId)
                       /\ execs[e].status = "running" =>
                     /\ execs'[e].errors = Append(execs[e].errors, id)
                     /\ execs'[e].results = execs[e].results
                     /\ execs'[e].status = "running"
                     /\ execs'[e].currentStep = st.next[1]
                     /\ visits'[e][st.next[1]] = visits[e][st.next[1]] + 1
                     /\ awaiting'[e][st.next[1]] >= 1 ]_vars
    /\ [](\A e \in ExecIds :
            /\ execs[e].workflowId = "linear-abc"
            /\ NumInFlight(e) = 0
            /\ resumes[e] = 0 /\ execs[e].status # "paused" /\ ~Cancelled(e)
            => /\ execs[e].status = "completed"
               /\ execs[e].errors = << "B" >>
               /\ execs[e].results["A"] # "absent"
               /\ execs[e].results["C"] # "absent"
               /\ execs[e].results["B"] = "absent")

\* A->B->C has run to its end undisturbed, B having failed.
C12_Witness ==
    \E e \in ExecIds :
        /\ execs[e].workflowId = "linear-abc"
        /\ NumInFlight(e) = 0
        /\ resumes[e] = 0 /\ ~Cancelled(e)
        /\ execs[e].status = "completed"
        /\ execs[e].errors = << "B" >>
        /\ execs[e].endTimeSets = 1

\* C13: when a step whose next is absent or a pair fails, the status becomes
\* Failed and no further step of the execution begins, and the execution
\* never becomes Completed (its status stays Failed).
HardFailed(e) ==
    \E i \in DOMAIN execs[e].errors :
        /\ execs[e].errors[i] \in StepIds(execs[e].workflowId)
        /\ Len(StepOf(execs[e].workflowId, execs[e].errors[i]).next) # 1

C13_FailWithoutSingleNext ==
    /\ [][ \A e \in ExecIds : \A id \in DOMAIN awaiting[e] :
             \A out \in { "rejected_error", "rejected_timeout" } :
               StepReturns(e, id, out)
                   /\ Len(StepOf(execs[e].workflowId, id).next) # 1 =>
                     /\ execs'[e].status = "failed"
                     /\ visits'[e] = visits[e]
                     /\ HardFailed(e)' ]_vars
    /\ [](\A e \in ExecIds : HardFailed(e) => execs[e].status = "failed")
    /\ [][ \A e \in ExecIds : HardFailed(e) => visits'[e] = visits[e] ]_vars

\* A step with a pair as next has failed, and the run has ended.
C13_Witness ==
    \E e \in ExecIds :
        /\ execs[e].workflowId = "branching"
        /\ execs[e].errors = << "left" >>
        /\ execs[e].status = "failed"
        /\ NumInFlight(e) = 0

\* C14: after a step whose next is a pair [t, f] the loop goes on with t
\* exactly when the step's condition holds of the context and results, and
\* with f otherwise; after a Condition step the branch taken agrees with
\* the boolean the step recorded in results.
C14_BranchFollowsCondition ==
    [][ \A e \in ExecIds : \A id \in DOMAIN awaiting[e] :
          LET st == StepOf(execs[e].workflowId, id)
              followed == execs'[e].currentStep
          IN  StepReturns(e, id, "resolved") /\ Len(st.next) = 2
                  /\ execs[e].status = "running" =>
                /\ followed \in { st.next[1], st.next[2] }
                /\ st.condition # None =>
                      (followed = st.next[1]) = EvaluateCondition(st.condition, execs'[e])
                /\ st.type = "condition" =>
                      (followed = st.next[1]) = (execs'[e].results[id] = "true") ]_vars

\* C15: an execution of a workflow without Condition or Loop steps begins
\* each step at most once, and each step begun after the first is a next of
\* the step begun immediately before it (which currentStep holds).
NoConditionOrLoop(w) == \A st \in Range(Steps(w)) : st.type \notin { "condition", "loop" }

C15_VisitsOnceInOrder ==
    [][ \A e \in ExecIds :
          NoConditionOrLoop(execs[e].workflowId) =>
            \A id \in DOMAIN visits[e] :
                /\ visits'[e][id] <= 1
                /\ visits'[e][id] > visits[e][id] =>
                      id \in Range(StepOf(execs[e].workflowId, execs[e].currentStep).next)
      ]_vars

\* ========================================================================
\* Claims about the error recovery
\* ========================================================================
\* C3: an agent-error event gets one stop-then-start recovery attempt; when
\* that restart fails the agent is detached and no further restart of it is
\* attempted: the failed restart starts no recovery of its own, so no
\* recovery ever has the origin "restart".
C3_NoRetryAfterFailedRestart ==
    \A a \in SubAgents :
        /\ restarts[a]["restart"] = 0
        /\ \A ph \in Phases, i \in Infos : recovering[a][<< ph, "restart", i >>] = 0

\* ========================================================================
\* Claims about start() and stop()
\* ========================================================================
\* C16: a stop() that found the agent not Stopped leaves it Stopped and
\* emits a stopped event when it finishes, whether its shutdown hook
\* succeeded or failed.
C16_StopAlwaysStops ==
    [][ \A k \in CallIdx :
          calls[k].op = "stop" /\ calls[k].state = "awaiting"
              /\ calls'[k].state # "awaiting" =>
            /\ status'[calls[k].agent] = "stopped"
            /\ emitted' = Append(emitted, StoppedEvent(calls[k].agent)) ]_vars

\* C17: stop() never throws to its caller: a stop() whose shutdown hook
\* failed returns normally.
C17_StopNeverThrows ==
    \A k \in CallIdx :
        calls[k].op = "stop" => calls[k].state \in { "noop", "awaiting", "returned" }

\* A stop() whose shutdown hook failed has returned, after a start() of the
\* same agent threw the failure of its hook.
C17_Witness ==
    \E k, j \in CallIdx :
        /\ calls[k].op = "stop"
        /\ calls[k].hook \in HookFailures
        /\ calls[k].state = "returned"
        /\ calls[j].op = "start"
        /\ calls[j].agent = calls[k].agent
        /\ calls[j].state = "threw"

\* C18: of two stop() calls in a row on an agent, the first having
\* finished and no other call on the agent being under way, the second is
\* a no-op: the shutdown hook is not invoked again, no state changes and no
\* event is emitted.
LastCallOf(a) ==
    LET ks == { k \in CallIdx : calls[k].agent = a }
    IN  CHOOSE k \in ks : \A j \in ks : j <= k

StoppedBefore(a) ==
    /\ \E k \in CallIdx : calls[k].agent = a
    /\ calls[LastCallOf(a)].op = "stop"
    /\ \A k \in CallIdx : calls[k].agent = a => calls[k].state # "awaiting"

C18_StopIdempotent ==
    [][ \A a \in LcAgents :
          Stop(a) /\ StoppedBefore(a) =>
            /\ calls'[Len(calls')].state = "noop"
            /\ HookInvocations("stop", a)' = HookInvocations("stop", a)
            /\ status' = status
            /\ emitted' = emitted ]_vars

\* C19: start() on an agent whose status is Running, also while an earlier
\* start() is awaiting the initialize hook, is a no-op: initialize is not
\* invoked again, no event is emitted, the status is unchanged.
C19_StartWhileRunningIsNoop ==
    [][ \A a \in LcAgents :
          Start(a) /\ status[a] = "running" =>
            /\ calls'[Len(calls')].state = "noop"
            /\ HookInvocations("start", a)' = HookInvocations("start", a)
            /\ status' = status
            /\ emitted' = emitted ]_vars

\* A start() was a no-op while an earlier start() of the agent is still
\* awaiting its initialize hook.
C19_Witness ==
    \E j, k \in CallIdx :
        /\ j < k
        /\ calls[j].op = "start" /\ calls[k].op = "start"
        /\ calls[j].agent = calls[k].agent
        /\ calls[j].state = "awaiting"
        /\ calls[k].state = "noop"

\* C20: when the initialize hook of a start() fails, the status becomes
\* Error, one error event with the failure's message is emitted for the
\* agent and no started event, and start() throws the failure; so there is
\* one error event per failed start().
NumEvents(type, a) ==
    Cardinality({ i \in DOMAIN emitted :
                    emitted[i].type = type /\ emitted[i].agentId = a })

C20_FailedStart ==
    /\ [][ \A k \in CallIdx : \A msg \in HookFailures :
             InitializeSettles(k, msg) =>
               /\ status'[calls[k].agent] = "error"
               /\ emitted' = Append(emitted, ErrorEvent(calls[k].agent, msg))
               /\ calls'[k].state = "threw"
               /\ calls'[k].hook = msg ]_vars
    /\ [](\A a \in LcAgents :
            /\ NumEvents("agent:error", a)
                  = Cardinality({ k \in CallsOf("start", a) : calls[k].hook \in HookFailures })
            /\ \A k \in CallsOf("start", a) :
                  calls[k].hook \in HookFailures => calls[k].state = "threw")

\* A start() failed with E2 after the agent had been started and stopped
\* successfully: started, stopped and the error event have been emitted.
C20_Witness ==
    \E k \in CallIdx :
        /\ calls[k].op = "start"
        /\ calls[k].state = "threw"
        /\ calls[k].hook = "E2"
        /\ status[calls[k].agent] = "error"
        /\ Len(emitted) = 3
        /\ emitted[3] = ErrorEvent(calls[k].agent, "E2")

\* ========================================================================
\* Claims about the sweeps
\* ========================================================================
AttachedIn(table) == { table[i].agent : i \in { j \in DOMAIN table : table[j].attached } }
PriorityOf(table, a) == InfoOf(table, a).priority
Reverse(seq) == [ i \in DOMAIN seq |-> seq[Len(seq) + 1 - i] ]

\* C22: startAllAgents calls start() once on every agent that is registered
\* and attached when it is called and on no other agent, in non-increasing
\* priority order and one at a time (the next start() is called when the one
\* before has settled); a start() that fails neither fails the sweep nor
\* keeps it from starting the agents after it.
C22_StartSweep ==
    /\ [][ StartAllAgents =>
             LET list == startSweep'.agents
             IN  /\ Range(list) = AttachedIn(subAgents)
                 /\ Len(list) = Cardinality(Range(list))
                 /\ \A i, j \in DOMAIN list :
                       i < j => PriorityOf(subAgents, list[i]) >= PriorityOf(subAgents, list[j])
         ]_vars
    /\ [](startSweep.state = "running" =>
              /\ startSweep.pos \in DOMAIN startSweep.agents
              /\ Len(startSweep.results) = startSweep.pos - 1)
    /\ [](startSweep.state = "done" =>
              /\ Len(startSweep.results) = Len(startSweep.agents))
    /\ [][ startSweep.state = "running" =>
             /\ startSweep'.state \in { "running", "done" }
             /\ startSweep'.agents = startSweep.agents
             /\ startSweep'.pos >= startSweep.pos ]_vars

\* The sweep has finished: the start() of the agent of higher priority
\* failed and the agent after it was started all the same.
C22_Witness ==
    /\ startSweep.state = "done"
    /\ Len(startSweep.agents) = 2
    /\ startSweep.results = << "failed", "ok" >>
    /\ stopSweep.state = "idle"
    /\ Range(startSweep.agents) \subseteq Registered(subAgents)
    /\ PriorityOf(subAgents, startSweep.agents[1]) > PriorityOf(subAgents, startSweep.agents[2])

\* C23: X is registered with a higher priority than Y; in startAllAgents the
\* initialize hook of X succeeds and that of Y throws.  Afterwards the
\* status of Y is Error, that of X is Running, and one error event has been
\* emitted for Y.  (Nothing was called but start() of the Supervisor, the
\* two registerAgent and startAllAgents.)
C23_FailedStartInSweep ==
    \A x, y \in SwAgents :
        /\ startSweep.state = "done" /\ stopSweep.state = "idle"
        /\ supervisorUp /\ outsideCalls = 4
        /\ startSweep.agents = << x, y >>
        /\ { x, y } \subseteq Registered(subAgents)
        /\ PriorityOf(subAgents, x) > PriorityOf(subAgents, y)
        /\ startSweep.results = << "ok", "failed" >>
        => /\ agentStatus[y] = "error"
           /\ agentStatus[x] = "running"
           /\ errorEvents[y] = 1

\* C24: shutdown calls stop() on every registered agent, attached or not, in
\* non-decreasing priority order, and when it finishes the table is empty,
\* also when a shutdown hook has failed.
C24_StopSweep ==
    /\ [][ Shutdown =>
             LET list == stopSweep'.agents
             IN  /\ Range(list) = Registered(subAgents)
                 /\ Len(list) = Cardinality(Range(list))
                 /\ \A i, j \in DOMAIN list :
                       i < j => PriorityOf(subAgents, list[i]) <= PriorityOf(subAgents, list[j])
         ]_vars
    /\ [](stopSweep.state = "running" =>
              /\ stopSweep.pos \in DOMAIN stopSweep.agents
              /\ Len(stopSweep.results) = stopSweep.pos - 1)
    /\ [][ (Shutdown \/ SweepStopResumes) /\ stopSweep'.state = "done" =>
              /\ stopSweep.state = "running" =>
                    Len(stopSweep.results) + 1 = Len(stopSweep.agents)
              /\ stopSweep.state # "running" => subAgents = << >>
              /\ subAgents' = << >> ]_vars
    /\ [][ stopSweep.state = "running" =>
             /\ stopSweep'.state \in { "running", "done" }
             /\ stopSweep'.state = "running" =>
                   /\ stopSweep'.agents = stopSweep.agents
                   /\ stopSweep'.pos >= stopSweep.pos ]_vars

\* The shutdown hook of the first agent failed, and shutdown is waiting for
\* the stop() of the next agent, which is detached.
C24_Witness ==
    /\ stopSweep.state = "running"
    /\ stopSweep.pos = 2
    /\ stopSweep.results = << "failed" >>
    /\ stopSweep.agents[2] \in Registered(subAgents)
    /\ ~InfoOf(subAgents, stopSweep.agents[2]).attached
    /\ startSweep.state = "idle"

\* C25: with all registered agents attached, shutdown stops the agents in
\* exactly the reverse of the order in which startAllAgents started them,
\* also when agents have equal priority.  (Nothing was called before
\* shutdown but registerAgent for each agent and startAllAgents.)
C25_StopReversesStart ==
    [][ /\ Shutdown
        /\ startSweep.state = "done"
        /\ outsideCalls = Len(startSweep.agents) + 1
        /\ AttachedIn(subAgents) = Registered(subAgents)
        /\ Range(startSweep.agents) = Registered(subAgents)
        => stopSweep'.agents = Reverse(startSweep.agents) ]_vars

\* ========================================================================
\* Claims about executeWorkflow
\* ========================================================================
\* C31: executeWorkflow for a workflow that is not registered, detached or
\* disabled fails, creates no execution and emits no workflow:started event;
\* for a registered, attached and enabled workflow it creates exactly one
\* execution, which at the return has status Running, the first step of the
\* workflow as currentStep, the given context and no result of any step.
C31_ExecuteWorkflow ==
    [][ \A w \in WorkflowIds \cup UnknownWorkflowIds, ctx \in Contexts :
          ExecuteWorkflow(w, ctx) =>
            IF workflows[w] # Available
              THEN /\ lastExecute'.outcome \in { "Workflow not found", "Workflow not available" }
                   /\ execs' = execs
                   /\ startedEvents' = startedEvents
              ELSE /\ lastExecute'.outcome = "returned"
                   /\ Len(execs') = Len(execs) + 1
                   /\ SubSeq(execs', 1, Len(execs)) = execs
                   /\ startedEvents' = startedEvents + 1
                   /\ LET x == execs'[Len(execs')]
                      IN  /\ x.workflowId = w
                          /\ x.status = "running"
                          /\ x.currentStep = FirstStep(w)
                          /\ x.context = ctx
                          /\ \A id \in StepIds(w) : x.results[id] = "absent" ]_vars

\* The Loop steps of a workflow, and the items of one in an execution.
LoopSteps(w) == { st \in Range(Steps(w)) : st.type = "loop" }
ItemsOf(x, st) == ResolveValue(st.items, x).elems

\* C33: a Loop step over n items executes its nested step n times in the
\* same execution, one item after the other in the order of the items, the
\* next iteration beginning only when the result of the one before is
\* collected, on the context of the execution (currentItem is the item of
\* the iteration), and its result is the list of the n results in order.
C33_LoopStep ==
    /\ [](\A e \in ExecIds : \A act \in BagToSet(loops[e]) :
            LET st == StepOf(execs[e].workflowId, act.step)
            IN  /\ act.iter \in 1 .. Len(ItemsOf(execs[e], st))
                /\ act.settled = None => Len(act.results) = act.iter - 1
                /\ act.settled = "resolved" =>
                      /\ act.iter = Len(ItemsOf(execs[e], st))
                      /\ Len(act.results) = act.iter)
    /\ [][ \A e \in ExecIds : \A act \in BagToSet(loops[e]) :
             /\ IterationReturns(e, act, "resolved") =>
                   LET x == execs[e]
                       st == StepOf(x.workflowId, act.step)
                       inner == StepOf(x.workflowId, st.stepId)
                       elems == ItemsOf(x, st)
                       collected == Append(act.results, StepResult(inner, x))
                   IN  /\ execs'[e].results = x.results
                       /\ IF act.iter < Len(elems)
                            THEN /\ BagIn([ step |-> act.step, iter |-> act.iter + 1,
                                            results |-> collected, settled |-> None ],
                                          loops'[e])
                                 /\ nested'[e][inner.id] = nested[e][inner.id] + 1
                                 /\ execs'[e].context.currentItem = elems[act.iter + 1]
                            ELSE /\ BagIn([ step |-> act.step, iter |-> act.iter,
                                            results |-> collected, settled |-> "resolved" ],
                                          loops'[e])
                                 /\ nested'[e] = nested[e]
             /\ LoopStepReturns(e, act) /\ act.settled = "resolved" =>
                   /\ execs'[e].results[act.step] = "list"
                   /\ execs'[e].lists[act.step] = act.results ]_vars
    /\ [](\A e \in ExecIds : \A st \in LoopSteps(execs[e].workflowId) :
            resumes[e] = 0 /\ execs[e].results[st.id] = "list"
            => /\ nested[e][st.stepId] = Len(ItemsOf(execs[e], st))
               /\ Len(execs[e].lists[st.id]) = Len(ItemsOf(execs[e], st)))

\* Execution e is known to the engine and its status is Running.
KnownAndRunning(e) ==
    e \in ExecIds /\ execs[e].inMap /\ execs[e].status = "running"

\* C34: pauseExecution on a Running execution sets its status to Paused and
\* changes nothing else, and from a state where the status is Paused to a
\* state where it still is, no step of the step loop of that execution
\* begins; on an unknown execution or one that is not Running it returns
\* false and changes nothing.
C34_Pause ==
    [][ \A e \in CallIds :
          /\ PauseExecution(e) /\ KnownAndRunning(e) =>
                /\ execs' = [ execs EXCEPT ![e].status = "paused" ]
                /\ UNCHANGED << awaiting, loops, runningExecutions, visits, nested >>
          /\ PauseExecution(e) /\ ~KnownAndRunning(e) => UNCHANGED wvars
          /\ /\ e \in ExecIds
             /\ execs[e].status = "paused"
             /\ execs'[e].status = "paused"
             => visits'[e] = visits[e] ]_vars

\* An execution was paused while its first step was in flight; that step has
\* returned since and its result is recorded, and the step after it has not
\* begun.
C34_Witness ==
    \E e \in ExecIds :
        /\ execs[e].workflowId = "linear-abc"
        /\ execs[e].status = "paused"
        /\ resumes[e] = 0
        /\ NumInFlight(e) = 0
        /\ NumVisits(e) = 1
        /\ execs[e].results["A"] # None
        /\ visits[e]["B"] = 0

\* The table is the same but for the attached flag of a's record, which is flag.
OnlyFlagOf(a, flag) ==
    /\ Len(subAgents') = Len(subAgents)
    /\ \A i \in DOMAIN subAgents :
          /\ subAgents'[i].agent = subAgents[i].agent
          /\ subAgents'[i].priority = subAgents[i].priority
          /\ subAgents'[i].attached =
                IF subAgents[i].agent = a THEN flag ELSE subAgents[i].attached

\* C35: attachAgent and detachAgent set the attached flag of the record of
\* the named agent and change nothing else: no lifecycle status, no
\* priority, no other record, not the task queue; for an id that is not
\* registered they return false and change nothing at all.
C35_AttachDetachFrame ==
    [][ \A a \in SwAgents :
          /\ AttachAgent(a) => OnlyFlagOf(a, TRUE)
          /\ DetachAgent(a) => OnlyFlagOf(a, FALSE)
          /\ AttachAgent(a) \/ DetachAgent(a) =>
                /\ agentStatus' = agentStatus
                /\ UNCHANGED << supervisorUp, startSweep, stopSweep, recovery,
                                direct, errorEvents >>
                /\ UNCHANGED notSweeps
                /\ a \notin Registered(subAgents) => subAgents' = subAgents ]_vars

\* A running agent was detached and is still running, next to an attached
\* record that kept its flag.
C35_Witness ==
    \E a, b \in Registered(subAgents) :
        /\ a # b
        /\ ~InfoOf(subAgents, a).attached
        /\ agentStatus[a] = "running"
        /\ InfoOf(subAgents, b).attached
        /\ agentStatus[b] = "running"
        /\ startSweep.state = "done"

\* The single next of step st of workflow w names no step of w.
Unresolved(w, st) == Len(st.next) = 1 /\ st.next[1] \notin StepIds(w)

\* C37: when a step of a Running execution returns and its next names a
\* step id that is not in the workflow, no step begins, the status becomes
\* Completed and errors gets no entry for the reference (its only new entry
\* is that of the step itself, if the step failed); a run of such a workflow
\* that is left alone ends Completed.
C37_UnresolvedNext ==
    /\ [][ \A e \in ExecIds : \A id \in DOMAIN awaiting[e] :
             \A out \in { "resolved", "rejected_error", "rejected_timeout" } :
               LET st == StepOf(execs[e].workflowId, id)
               IN  StepReturns(e, id, out) /\ Unresolved(execs[e].workflowId, st)
                       /\ execs[e].status = "running" =>
                     /\ execs'[e].status = "completed"
                     /\ execs'[e].errors = IF out = "resolved"
                                             THEN execs[e].errors
                                             ELSE Append(execs[e].errors, id)
                     /\ execs'[e].endTimeSets = execs[e].endTimeSets + 1
                     /\ visits'[e] = visits[e]
                     /\ nested'[e] = nested[e]
                     /\ NumInFlight(e)' = NumInFlight(e) - 1 ]_vars
    /\ [](\A e \in ExecIds :
            /\ execs[e].workflowId = "dangling"
            /\ NumInFlight(e) = 0
            /\ resumes[e] = 0 /\ execs[e].status # "paused" /\ ~Cancelled(e)
            => /\ execs[e].status = "completed"
               /\ Range(execs[e].errors) \subseteq { "second" }
               /\ NumVisits(e) = 2)

\* The workflow whose last step names a missing successor has run to its
\* end undisturbed.
C37_Witness ==
    \E e \in ExecIds :
        /\ execs[e].workflowId = "dangling"
        /\ NumInFlight(e) = 0
        /\ resumes[e] = 0 /\ ~Cancelled(e)
        /\ execs[e].status = "completed"
        /\ visits[e]["second"] = 1
        /\ execs[e].endTimeSets = 1

\* The shutdown hook has completed: the Map of executions was cleared, which
\* nothing else does.
AfterShutdown(e) == e \in ExecIds /\ ~execs[e].inMap

\* C38: when shutdown has completed no execution has status Running (every
\* one that had it was cancelled, also one that was paused and resumed
\* before), and after shutdown no step and no iteration of any execution
\* begins.
C38_ShutdownCancelsAll ==
    /\ [](\A e \in ExecIds : AfterShutdown(e) => execs[e].status # "running")
    /\ [][ \A e \in ExecIds : AfterShutdown(e) =>
             visits'[e] = visits[e] /\ nested'[e] = nested[e] ]_vars

\* C39: whenever a started event is emitted for an agent, the status of
\* that agent is Running at that moment, however start() and stop() calls
\* on the agent overlap.
C39_StartedMeansRunning ==
    [][ \A a \in LcAgents :
          /\ Len(emitted') = Len(emitted) + 1
          /\ emitted'[Len(emitted')] = StartedEvent(a)
          => status'[a] = "running" ]_vars

\* C40: once an interval timer is running, every task that is in the queue
\* is eventually taken from it and every pending future is eventually
\* resolved or rejected; the flag is released whenever a task settles,
\* whichever way; and a task is taken from the queue only when every task
\* queued before it has been taken.
C40_QueueDrains ==
    /\ \A t \in TaskIds :
          /\ (timers > 0 /\ t \in Range(taskQueue)) ~> (t \notin Range(taskQueue))
          /\ (timers > 0 /\ future[t] = "pending")
                ~> (future[t] \in { "resolved", "rejected" })
    /\ [][ \A t \in TaskIds :
             /\ (t \in inProcess /\ t \notin inProcess') => ~isProcessing'
             /\ (t \notin inProcess /\ t \in inProcess')
                  => /\ t = Head(taskQueue)
                     /\ \A u \in 1 .. (t - 1) : u \notin Range(taskQueue) ]_vars

\* The first task was rejected and the second resolved; the third is being
\* processed and the fourth waits in the queue.
C40_Witness ==
    /\ timers > 0
    /\ future[1] = "rejected"
    /\ future[2] = "resolved"
    /\ inProcess = { 3 }
    /\ taskQueue = << 4 >>

\* A step, pause, resume or cancel of execution e.
OperationOf(e) ==
    \/ \E id \in DOMAIN awaiting[e] :
          \E out \in { "resolved", "rejected_error", "rejected_timeout" } :
              StepReturns(e, id, out)
    \/ \E act \in BagToSet(loops[e]) :
          \E out \in { "resolved", "rejected_error", "rejected_timeout" } :
              IterationReturns(e, act, out)
    \/ \E act \in BagToSet(loops[e]) : LoopStepReturns(e, act)
    \/ CancelExecution(e)
    \/ PauseExecution(e)
    \/ ResumeExecution(e)

\* C32: for two executions that were started with distinct context
\* objects, no step, pause, resume or cancel of one changes the record of
\* the other (status, currentStep, results, errors, context).
C32_Independent ==
    [][ \A e \in ExecIds : OperationOf(e) =>
          \A f \in ExecIds \ { e } :
             contextOf[f] # contextOf[e] => execs'[f] = execs[f] ]_vars

\* Two executions of the Loop workflow with contexts of their own: the
\* first has gone through its items, the second was paused in its first
\* iteration and still shows the first item.
C32_Witness ==
    /\ Len(execs) = 2
    /\ contextOf[1] # contextOf[2]
    /\ execs[1].workflowId = "each-item" /\ execs[2].workflowId = "each-item"
    /\ execs[1].status = "completed" /\ execs[1].context.currentItem = "s2"
    /\ execs[2].status = "paused" /\ execs[2].context.currentItem = "s1"

\* ========================================================================
\* Claims about routing
\* ========================================================================
\* The agents of the table that the fallback of routeTask may take, in the
\* order of the table.
RunningAttached(table, st) ==
    SelectSeq([ i \in DOMAIN table |-> table[i].agent ],
              LAMBDA a : InfoOf(table, a).attached /\ st[a] = "running")

\* C26: a task that names a target agent is forwarded to that agent, and to
\* no other, exactly when the agent is registered and attached; otherwise
\* processTask fails with "not found or not attached" and sends no request.
C26_ExplicitTarget ==
    [][ (\E task \in Tasks : ProcessTask(task)) /\ routed'.agentId # None
        => IF routed'.agentId \in AttachedIn(subAgents)
             THEN routed'.outcome = "forwarded" /\ routed'.target = routed'.agentId
             ELSE /\ routed'.outcome = "not found or not attached"
                  /\ routed'.target = None ]_vars

\* A task named a registered but detached agent and failed, although another
\* agent was attached and running.
C26_Witness ==
    /\ routed.agentId = "X"
    /\ routed.outcome = "not found or not attached"
    /\ routed.target = None
    /\ "X" \in Registered(subAgents) \ AttachedIn(subAgents)
    /\ RunningAttached(subAgents, agentStatus) = << "Y" >>

\* C27: a task without a named target whose type is in the category table
\* goes to the agent of the matched name; a task whose type is not in the
\* table goes to the first attached agent that is running; and if no agent
\* qualifies the task fails with "No suitable agent found" and no request
\* is sent.
C27_CategoryThenFallback ==
    [][ (\E task \in Tasks : ProcessTask(task)) /\ routed'.agentId = None
        => LET name == IF routed'.type = None THEN None ELSE TypeToAgent(routed'.type)
               avail == RunningAttached(subAgents, agentStatus)
           IN  /\ routed'.outcome \in { "forwarded", "No suitable agent found" }
               /\ routed'.outcome = "No suitable agent found" => routed'.target = None
               /\ name # None /\ routed'.outcome = "forwarded"
                     => AgentNameOf(routed'.target) = name
               /\ name = None
                     => IF avail # << >>
                          THEN routed'.outcome = "forwarded" /\ routed'.target = Head(avail)
                          ELSE routed'.outcome = "No suitable agent found" ]_vars

\* C28: every request that processTask forwards is addressed to an agent
\* that is registered and attached when it is forwarded.
C28_ForwardedToAttached ==
    [][ (\E task \in Tasks : ProcessTask(task)) /\ routed'.outcome = "forwarded"
        => routed'.target \in AttachedIn(subAgents) ]_vars

\* A task of type "tool" was forwarded while the registered agent of the
\* matched name was detached: it went to the attached agent.
C28_Witness ==
    /\ routed.agentId = None
    /\ routed.type = "tool"
    /\ routed.outcome = "forwarded"
    /\ routed.target = "Y"
    /\ "X" \in Registered(subAgents) \ AttachedIn(subAgents)
    /\ "Y" \in AttachedIn(subAgents)

\* ========================================================================
\* Claims about the dependency scheduler
\* ========================================================================
\* The tasks of the Map that a task depends on, directly or through others.
RECURSIVE DepsWithin(_, _, _)
DepsWithin(map, S, n) ==
    IF n = 0 THEN S
    ELSE DepsWithin(map,
                    S \cup UNION { TaskOf(map, x).dependencies \cap IdsOf(map) : x \in S },
                    n - 1)

TransitiveDeps(map, id) ==
    DepsWithin(map, TaskOf(map, id).dependencies \cap IdsOf(map), Len(map))

\* The dependency graph has a cycle: a task depends on itself, directly or
\* through other tasks.
HasCycle(map) == \E id \in IdsOf(map) : id \in TransitiveDeps(map, id)

AllPending(map) == \A i \in DOMAIN map : map[i].status = "pending"

\* C29: for a set of pending tasks whose dependency graph has no cycle, the
\* returned order holds every task exactly once (its length is the number
\* of tasks) and no task stands before one of its dependencies.
C29_AcyclicTotalOrder ==
    [][ AutoScheduleTasks /\ AllPending(tasks) /\ ~HasCycle(tasks)
        => /\ Len(scheduled'.order) = Len(tasks)
           /\ Range(scheduled'.order) = IdsOf(tasks)
           /\ \A i, j \in DOMAIN scheduled'.order :
                 scheduled'.order[j] \in TaskOf(tasks, scheduled'.order[i]).dependencies
                 => j < i ]_vars

\* A chain inserted against its dependencies (a needs b, b needs c), and
\* autoScheduleTasks called once the three tasks are in the Map: three
\* passes schedule c, then b, then a.
C29_Witness ==
    /\ scheduled.called
    /\ plannerWrites = Len(tasks)
    /\ tasks = << [ id |-> "a", dependencies |-> { "b" }, status |-> "pending" ],
                  [ id |-> "b", dependencies |-> { "c" }, status |-> "pending" ],
                  [ id |-> "c", dependencies |-> {}, status |-> "pending" ] >>
    /\ scheduled.order = << "c", "b", "a" >>

\* C30: for a task set whose dependency graph has a cycle (a task that
\* depends on itself included), autoScheduleTasks returns, and the order it
\* returns is strictly shorter than the number of tasks.
C30_CyclicPartialOrder ==
    [][ AutoScheduleTasks /\ HasCycle(tasks)
        => scheduled'.called /\ Len(scheduled'.order) < Len(tasks) ]_vars

\* A task that depends on itself, next to two tasks that can be scheduled,
\* and autoScheduleTasks called once the three tasks are in the Map.
C30_Witness ==
    /\ scheduled.called
    /\ plannerWrites = Len(tasks)
    /\ tasks = << [ id |-> "a", dependencies |-> { "a" }, status |-> "pending" ],
                  [ id |-> "b", dependencies |-> {}, status |-> "pending" ],
                  [ id |-> "c", dependencies |-> { "b" }, status |-> "pending" ] >>
    /\ scheduled.order = << "b", "c" >>

\* The pending tasks, the pending dependencies of a task, and the pending
\* tasks a task depends on through pending dependencies only.
PendingIds(map) == { id \in IdsOf(map) : TaskOf(map, id).status = "pending" }
PendingDeps(map, id) == TaskOf(map, id).dependencies \cap PendingIds(map)

RECURSIVE PendingWithin(_, _, _)
PendingWithin(map, S, n) ==
    IF n = 0 THEN S
    ELSE PendingWithin(map, S \cup UNION { PendingDeps(map, x) : x \in S }, n - 1)

PendingReach(map, id) == PendingWithin(map, PendingDeps(map, id), Len(map))
OnPendingCycle(map, id) == id \in PendingReach(map, id)
Blocked(map, id) ==
    \/ OnPendingCycle(map, id)
    \/ \E x \in PendingReach(map, id) : OnPendingCycle(map, x)

\* C36: a dependency that is not a pending task (completed, in progress,
\* or an id that is not in the Map) never blocks, so the returned order
\* holds exactly the pending tasks that neither lie on a cycle of pending
\* dependencies nor depend on such a task through pending dependencies,
\* each once and after all of its pending dependencies.
C36_ResultSet ==
    [][ AutoScheduleTasks
        => LET free == { id \in PendingIds(tasks) : ~Blocked(tasks, id) }
           IN  /\ Range(scheduled'.order) = free
               /\ Len(scheduled'.order) = Cardinality(free)
               /\ \A i, j \in DOMAIN scheduled'.order :
                     scheduled'.order[j] \in PendingDeps(tasks, scheduled'.order[i])
                     => j < i ]_vars

\* autoScheduleTasks called once three tasks are in the Map: c needs b,
\* which is in progress, and is scheduled all the same; a, which needs
\* itself, is not.
C36_Witness ==
    /\ scheduled.called
    /\ plannerWrites = Len(tasks)
    /\ tasks = << [ id |-> "a", dependencies |-> { "a" }, status |-> "pending" ],
                  [ id |-> "b", dependencies |-> { "b", "c" }, status |-> "in_progress" ],
                  [ id |-> "c", dependencies |-> { "b" }, status |-> "pending" ] >>
    /\ scheduled.order = << "c" >>

\* ========================================================================
\* Claims about the task queue
\* ========================================================================
\* C1: at most one task taken from the queue is being processed at any
\* moment (a task is only dequeued while no dequeued task is unfinished),
\* and one wake-up removes at most one task from the queue.
C1_SerialProcessing ==
    /\ [](Cardinality(inProcess) <= 1)
    /\ [](inProcess # {} => isProcessing)
    /\ [][ /\ Len(taskQueue') >= Len(taskQueue) - 1
           /\ (inProcess' # inProcess /\ inProcess # {} => inProcess' = {}) ]_vars

\* A task is being processed while another one waits in the queue and a
\* timer is running: the case in which the flag is what keeps it serial.
C1_Witness ==
    /\ Cardinality(inProcess) = 1
    /\ Len(taskQueue) >= 1
    /\ timers >= 1
    /\ \E t \in TaskIds : future[t] \in { "resolved", "rejected" }
====
